---- MODULE Spec2Model ----
(***************************************************************************)
(* Model of the streaming component extractor                              *)
(* (skills/bpmn-to-react-converter/scripts/extract-components.js): the     *)
(* sax event handlers of ComponentExtractor.extract, saveComponent,        *)
(* reconstructXML, escapeXML, generateIndex and the CLI's then/catch.      *)
(*                                                                         *)
(* Strings whose characters matter (attribute values, text, file base      *)
(* names) are sequences of one-character strings.  A JavaScript value is a *)
(* record [t, v]: t is its type and v its characters.                      *)
(***************************************************************************)
EXTENDS Integers, Sequences, FiniteSets, TLC

\* Bounds of the model.
MaxEvents == 6
MaxClock == 2

--------------------------------------------------------------------------
\* JavaScript values.

Undefined == [t |-> "undefined", v |-> <<>>]

Null == [t |-> "null", v |-> <<>>]

Str(s) == [t |-> "string", v |-> s]

\* The object {name, value, prefix, local, uri} that sax stores for every
\* attribute of a tag when the stream is created with xmlns: true.
AttrObj(s) == [t |-> "object", v |-> s]

ObjectObject == <<"[", "o", "b", "j", "e", "c", "t", " ", "O", "b", "j", "e", "c", "t", "]">>

Truthy(x) ==
  CASE x.t = "string" -> x.v # <<>>
    [] x.t = "object" -> TRUE
    [] OTHER -> FALSE

\* a !== b for the operands the code compares: an attribute and the
\* componentId string.  An object is never strictly equal to a string.
StrictNotEqual(a, b) == ~(a.t = b.t /\ a.t # "object" /\ a.v = b.v)

\* String conversion in a template literal.
StringOf(x) ==
  CASE x.t = "string" -> x.v
    [] x.t = "object" -> ObjectObject
    [] x.t = "null" -> <<"n", "u", "l", "l">>
    [] OTHER -> <<"u", "n", "d", "e", "f", "i", "n", "e", "d">>

\* a || b
OrElse(a, b) == IF Truthy(a) THEN a ELSE b

\* node.attributes.k of an attribute list (insertion order kept).
RECURSIVE Attr(_, _)
Attr(attributes, k) ==
  IF attributes = <<>> THEN Undefined
  ELSE IF Head(attributes).key = k THEN Head(attributes).val
  ELSE Attr(Tail(attributes), k)

--------------------------------------------------------------------------
\* Pure string functions.

IsSpace(c) == c \in {" ", "\n", "\t"}

RECURSIVE TrimStart(_)
TrimStart(s) ==
  IF s # <<>> /\ IsSpace(Head(s)) THEN TrimStart(Tail(s)) ELSE s

RECURSIVE TrimEnd(_)
TrimEnd(s) ==
  IF s # <<>> /\ IsSpace(s[Len(s)]) THEN TrimEnd(SubSeq(s, 1, Len(s) - 1)) ELSE s

\* String.prototype.trim
Trim(s) == TrimEnd(TrimStart(s))

\* str.replace(/c/g, r)
RECURSIVE ReplaceAll(_, _, _)
ReplaceAll(s, c, r) ==
  IF s = <<>> THEN <<>>
  ELSE (IF Head(s) = c THEN r ELSE <<Head(s)>>) \o ReplaceAll(Tail(s), c, r)

EscapeChars(s) ==
  ReplaceAll(
    ReplaceAll(
      ReplaceAll(
        ReplaceAll(
          ReplaceAll(s, "&", <<"&", "a", "m", "p", ";">>),
          "<", <<"&", "l", "t", ";">>),
        ">", <<"&", "g", "t", ";">>),
      "\"", <<"&", "q", "u", "o", "t", ";">>),
    "'", <<"&", "a", "p", "o", "s", ";">>)

\* escapeXML: a value that is not a string is returned as it is.
escapeXML(x) == IF x.t # "string" THEN x ELSE Str(EscapeChars(x.v))

\* reconstructXML: one line per buffered item, indented by indentLevel.
RECURSIVE EntryTexts(_)
EntryTexts(attributes) ==
  IF attributes = <<>> THEN <<>>
  ELSE <<[key |-> Head(attributes).key,
          val |-> StringOf(escapeXML(Head(attributes).val))]>>
       \o EntryTexts(Tail(attributes))

XMLLine(item, indentLevel) ==
  CASE item.type = "open" ->
         [indent |-> indentLevel, kind |-> "open", name |-> item.name,
          attrs |-> EntryTexts(item.attributes)]
    [] item.type = "text" ->
         [indent |-> indentLevel, kind |-> "text",
          value |-> StringOf(escapeXML(Str(Trim(item.value))))]
    [] OTHER ->
         [indent |-> indentLevel - 1, kind |-> "close", name |-> item.name]

NextIndent(item, indentLevel) ==
  CASE item.type = "open" -> indentLevel + 1
    [] item.type = "close" -> indentLevel - 1
    [] OTHER -> indentLevel

RECURSIVE ReconstructFrom(_, _)
ReconstructFrom(content, indentLevel) ==
  IF content = <<>> THEN <<>>
  ELSE <<XMLLine(Head(content), indentLevel)>>
       \o ReconstructFrom(Tail(content), NextIndent(Head(content), indentLevel))

\* The fragment starts with the XML declaration line.
reconstructXML(content) ==
  <<[indent |-> 0, kind |-> "prolog"]>> \o ReconstructFrom(content, 0)

--------------------------------------------------------------------------
\* The selection predicate of extract().

AllTags == {"coachView", "humanService", "service", "process", "bpdProcess", "serviceTask"}

ToLowerCase(s) ==
  CASE s = "CoachView" -> "coachview"
    [] s = "Task" -> "task"
    [] OTHER -> s

typeMap(k) ==
  CASE k = "coachview" -> {"coachView"}
    [] k = "service" -> {"humanService", "service"}
    [] k = "process" -> {"process", "bpdProcess"}
    [] k = "task" -> {"serviceTask", "scriptTask", "userTask"}
    [] OTHER -> {}

IdMismatch(cId, attributes) ==
  Truthy(cId) /\ StrictNotEqual(Attr(attributes, "id"), cId)

shouldCapture(cType, cId, tagName, attributes) ==
  IF IdMismatch(cId, attributes) THEN FALSE
  ELSE IF cType = "all" THEN tagName \in AllTags
  ELSE tagName \in typeMap(ToLowerCase(cType))

--------------------------------------------------------------------------
\* The documents the parser is fed: tags, attribute lists and texts.

Tags == {"coachView", "scriptTask"}

IdA == <<"A">>

IdB == <<"B">>

NameN == <<"<", "&">>

\* Attribute lists as sax hands them to opentag (xmlns: true): every value is
\* an attribute object.
AttributeLists ==
  { <<>>,
    <<[key |-> "id", val |-> AttrObj(IdB)]>>,
    <<[key |-> "id", val |-> AttrObj(IdA)], [key |-> "name", val |-> AttrObj(NameN)]>> }

Texts == { <<" ">>, <<" ", "&">> }

\* The (componentType, componentId) pairs extract() is called with.
Invocations ==
  { <<"all", Null>>, <<"CoachView", Null>>, <<"task", Null>>, <<"CoachView", Str(IdB)>> }

Clock == 1..MaxClock

--------------------------------------------------------------------------
VARIABLES
  componentType,      \* extract() argument
  componentId,        \* extract() argument: null or a string
  components,         \* this.components
  capturingContent,   \* this.capturingContent
  captureDepth,       \* this.captureDepth
  currentDepth,       \* let currentDepth of extract()
  capturedContent,    \* let capturedContent of extract()
  componentMetadata,  \* let componentMetadata of extract()
  promise,            \* the promise extract() returns
  files,              \* the output directory: path -> content
  writeLog,           \* the paths of the fs.writeFileSync calls, in order
  tags,               \* the parser's stack of open tags
  pendingCloses,      \* closetag events the parser still emits for one end tag
  stream,             \* the pipe from the file stream into the sax stream
  events,             \* the open/text/close events emitted so far
  startedAt,          \* positions in events of the opens that started a capture
  pc,                 \* position of the CLI's main
  exitCode,           \* process exit code, -1 while running
  source,             \* the input path: missing, unreadable or readable
  outputDirExists,    \* the output directory exists
  run,                \* number of the CLI run on this document
  firstFiles,         \* the output directory as the first run left it
  doc,                \* the events of the document the first run read
  analyzer,           \* the BPMNAnalyzer instance: its fields
  aStream,            \* the pipe of the current analyze() call
  aPromise,           \* the promise of the current analyze() call
  report,             \* the value that promise was resolved with
  aTags,              \* the parser's stack of open tags in analyze()
  aPending,           \* closetag events the parser still emits for one end tag
  analyzed,           \* the open/close events of the current analyze() call
  scans,              \* number of analyze() calls made on the instance
  handled,            \* number of events the instance has handled
  instance,           \* a ComponentExtractor used for two extract() calls
  calls,              \* per extract() call: its locals, its parser, its promise
  disk,               \* the output directory of that instance: path -> content
  crashed,            \* an exception left a handler of that instance uncaught
  stateFile,          \* .claude/ralphy-loop.local.md: its frontmatter
  prd,                \* the PRD file: its tasks
  transcript,         \* the messages of the session's transcript
  transcriptReadable, \* the hook input names a transcript file that exists
  hookOutput,         \* what the last run of the stop hook printed
  command,            \* the last /ralphy-loop or /cancel-ralphy run: exit status
  marked,             \* tasks marked complete since the loop was set up
  argv,               \* the arguments of the analyze CLI
  folder,             \* the files the analyze CLI reads and writes: path -> content
  aExit,              \* exit code of the analyze CLI, -1 while running
  phase               \* working on a task, stopping (the hook runs next), exited

invocation == <<source, outputDirExists, run, firstFiles, doc>>

analysis == <<analyzer, aStream, aPromise, report, aTags, aPending, analyzed,
             scans, handled>>

scanning == <<instance, calls, disk, crashed>>

looping == <<stateFile, prd, transcript, transcriptReadable, hookOutput, command,
            marked, phase>>

reporting == <<argv, folder, aExit>>

\* What the extraction CLI leaves alone.
elsewhere == <<analysis, scanning, looping, reporting>>

vars == <<componentType, componentId, components, capturingContent, captureDepth,
          currentDepth, capturedContent, componentMetadata, promise, files,
          writeLog, tags, pendingCloses, stream, events, startedAt, pc, exitCode,
          invocation, elsewhere>>

args == <<componentType, componentId>>

capture == <<capturingContent, captureDepth, capturedContent, componentMetadata>>

output == <<components, files, writeLog>>

\* new BPMNAnalyzer()
BPMNAnalyzer ==
  [coachViews |-> <<>>, humanServices |-> <<>>, bpdProcesses |-> <<>>,
   serviceTasks |-> <<>>, dataBindings |-> {}, nestingDepth |-> 0,
   maxNestingDepth |-> 0, currentPath |-> <<>>, elementCounts |-> <<>>]

\* An analyzer that was constructed and has not been asked to analyze.
NotAnalyzing ==
  /\ analyzer = BPMNAnalyzer
  /\ aStream = "idle"
  /\ aPromise = "pending"
  /\ report = Null
  /\ aTags = <<>>
  /\ aPending = 0
  /\ analyzed = <<>>
  /\ scans = 0
  /\ handled = 0

\* The analyze CLI has not been started.
NotReporting ==
  /\ argv = <<>>
  /\ folder = <<>>
  /\ aExit = -1

\* The two extract() calls made on one instance.
CallIds == {1, 2}

\* The locals of an extract() call that has not been made.
NewCall ==
  [status |-> "none", sequential |-> FALSE, currentDepth |-> 0,
   capturedContent |-> <<>>, componentMetadata |-> Null, tags |-> <<>>,
   events |-> <<>>, produced |-> <<>>, extractedCount |-> -1]

\* new ComponentExtractor(), no extract() call made yet.
NotScanning ==
  /\ instance = [components |-> <<>>, captureDepth |-> 0, capturingContent |-> FALSE]
  /\ calls = [c \in CallIds |-> NewCall]
  /\ disk = <<>>
  /\ crashed = FALSE

\* MAX_RETRIES=3: the default of --max-retries.
MAX_RETRIES == 3

\* The options of /ralphy-loop when none is given.
DefaultOptions ==
  [skip_tests |-> FALSE, skip_lint |-> FALSE, browser_enabled |-> FALSE,
   max_retries |-> MAX_RETRIES]

\* The frontmatter the setup script writes, and the file removed.
StateFile(prdFile, format, options, now) ==
  [exists |-> TRUE, active |-> TRUE, prd_file |-> prdFile, prd_format |-> format,
   current_task |-> 1, tasks_completed |-> 0, skip_tests |-> options.skip_tests,
   skip_lint |-> options.skip_lint, browser_enabled |-> options.browser_enabled,
   max_retries |-> options.max_retries, retry_count |-> 0, started_at |-> now]

Removed(file) == [file EXCEPT !.exists = FALSE]

\* What a run of the hook that prints nothing leaves as output.  nextTask is
\* the line of the PRD whose text the prompt holds (0: none), generic tells
\* that the prompt holds "Next incomplete task from <file>" in its place.
NoOutput ==
  [decision |-> "none", completed |-> 0, remaining |-> <<>>, iteration |-> 0,
   tests |-> FALSE, lint |-> FALSE, browser |-> FALSE, nextTask |-> 0,
   generic |-> FALSE]

\* No command has been run.
NoCommand == [name |-> "none", exit |-> 0]

\* No Ralphy loop has been set up.
NotLooping ==
  /\ stateFile = Removed(StateFile("PRD.md", "markdown", DefaultOptions, 0))
  /\ prd = [exists |-> FALSE, path |-> "PRD.md", tasks |-> <<>>]
  /\ transcript = <<>>
  /\ transcriptReadable = FALSE
  /\ hookOutput = NoOutput
  /\ command = NoCommand
  /\ marked = 0
  /\ phase = "exited"

Init ==
  /\ \E call \in Invocations : componentType = call[1] /\ componentId = call[2]
  /\ components = <<>>
  /\ capturingContent = FALSE
  /\ captureDepth = 0
  /\ currentDepth = 0
  /\ capturedContent = <<>>
  /\ componentMetadata = Null
  /\ promise = "pending"
  /\ files = <<>>
  /\ writeLog = <<>>
  /\ tags = <<>>
  /\ pendingCloses = 0
  /\ stream = "piped"
  /\ events = <<>>
  /\ startedAt = <<>>
  /\ pc = "extract"
  /\ exitCode = -1
  /\ source = "readable"
  /\ outputDirExists = TRUE
  /\ run = 1
  /\ firstFiles = <<>>
  /\ doc = <<>>
  /\ NotAnalyzing
  /\ NotReporting
  /\ NotScanning
  /\ NotLooping

\* The parser is still fed characters: the file stream is piped into it, or
\* the rest of the chunk in which an error was signalled is being parsed.
Parsing == pc = "extract" /\ stream \in {"piped", "errchunk"}

--------------------------------------------------------------------------
\* opentag handler.

\* Mutant: the opentag handler without its test of capturingContent.
StartsCaptureReentrant(capturing, matches) == matches

StartsCapture(capturing, matches) == ~capturing /\ matches

NewMetadata(name, attributes) ==
  [type |-> name,
   id |-> Attr(attributes, "id"),
   name |-> OrElse(Attr(attributes, "name"), Attr(attributes, "id")),
   attributes |-> attributes]

OpenItem(name, attributes, depth) ==
  [type |-> "open", name |-> name, attributes |-> attributes, depth |-> depth]

OpenTag(name, attributes) ==
  /\ Parsing
  /\ pendingCloses = 0
  /\ tags # <<>> \/ events = <<>>
  /\ Len(events) + Len(tags) + 2 <= MaxEvents
  /\ LET start == StartsCapture(capturingContent,
                                shouldCapture(componentType, componentId, name, attributes))
         capDepth == IF start THEN currentDepth ELSE captureDepth
         content == IF start THEN <<>> ELSE capturedContent
     IN /\ capturingContent' = (capturingContent \/ start)
        /\ captureDepth' = capDepth
        /\ componentMetadata' =
             IF start THEN NewMetadata(name, attributes) ELSE componentMetadata
        /\ capturedContent' =
             IF capturingContent \/ start
             THEN Append(content, OpenItem(name, attributes, currentDepth - capDepth))
             ELSE content
        /\ startedAt' = IF start THEN Append(startedAt, Len(events) + 1) ELSE startedAt
  /\ currentDepth' = currentDepth + 1
  /\ tags' = Append(tags, name)
  /\ events' = Append(events, [type |-> "open", name |-> name, attributes |-> attributes])
  /\ UNCHANGED <<elsewhere, invocation, args, output, promise, pendingCloses, stream, pc, exitCode>>

\* text handler.

\* Mutant: the text handler without its test of capturingContent.
KeepsTextOutside(capturing, text) == Trim(text) # <<>>

KeepsText(capturing, text) == capturing /\ Trim(text) # <<>>

TextItem(text) == [type |-> "text", value |-> text]

Text(text) ==
  /\ Parsing
  /\ pendingCloses = 0
  /\ tags # <<>>
  /\ Len(events) + Len(tags) + 1 <= MaxEvents
  /\ capturedContent' =
       IF KeepsText(capturingContent, text)
       THEN Append(capturedContent, TextItem(text))
       ELSE capturedContent
  /\ events' = Append(events, [type |-> "text", value |-> text])
  /\ UNCHANGED <<elsewhere, invocation, args, output, capturingContent, captureDepth, componentMetadata,
                 currentDepth, promise, tags, pendingCloses, stream, startedAt, pc, exitCode>>

--------------------------------------------------------------------------
\* saveComponent.

FilePath(dir, base, ext) == [dir |-> dir, base |-> base, ext |-> ext]

FileBase(metadata) == StringOf(OrElse(metadata.id, Str(<<"unnamed">>)))

XmlPath(metadata) == FilePath(metadata.type, FileBase(metadata), "xml")

JsonPath(metadata) == FilePath(metadata.type, FileBase(metadata), "json")

\* fs.writeFileSync(path, content)
WriteFile(fs, path, content) ==
  [p \in DOMAIN fs \cup {path} |-> IF p = path THEN content ELSE fs[p]]

saveComponent(fs, metadata, content) ==
  WriteFile(
    WriteFile(fs, XmlPath(metadata), [kind |-> "xml", body |-> reconstructXML(content)]),
    JsonPath(metadata), [kind |-> "json", body |-> metadata])

SavePaths(metadata) == <<XmlPath(metadata), JsonPath(metadata)>>

--------------------------------------------------------------------------
\* closetag handler.

CloseItem(name, depth) == [type |-> "close", name |-> name, depth |-> depth]

\* Mutant: the capture is taken to end one level above its starting depth.
CaptureFinishedAbove(depth, capDepth) == depth = capDepth + 1

\* Mutant: the capture is taken to end where the document's root closes.
CaptureFinishedAtRoot(depth, capDepth) == depth = 0

CaptureFinished(depth, capDepth) == depth = capDepth

\* Mutant: unshift instead of push.
PushComponentFront(list, metadata) == <<metadata>> \o list

PushComponent(list, metadata) == Append(list, metadata)

CloseTag ==
  /\ Parsing
  /\ tags # <<>>
  /\ LET tagName == tags[Len(tags)]
         depth == currentDepth - 1
         content == Append(capturedContent, CloseItem(tagName, depth - captureDepth))
         finished == capturingContent /\ CaptureFinished(depth, captureDepth)
     IN /\ currentDepth' = depth
        /\ IF finished
           THEN /\ files' = saveComponent(files, componentMetadata, content)
                /\ writeLog' = writeLog \o SavePaths(componentMetadata)
                /\ components' = PushComponent(components, componentMetadata)
                /\ capturingContent' = FALSE
                /\ capturedContent' = <<>>
                /\ componentMetadata' = Null
           ELSE /\ capturedContent' = IF capturingContent THEN content ELSE capturedContent
                /\ UNCHANGED <<output, capturingContent, componentMetadata>>
        /\ events' = Append(events, [type |-> "close", name |-> tagName])
  /\ tags' = SubSeq(tags, 1, Len(tags) - 1)
  /\ pendingCloses' = IF pendingCloses > 0 THEN pendingCloses - 1 ELSE 0
  /\ UNCHANGED <<elsewhere, invocation, args, captureDepth, promise, stream, startedAt, pc, exitCode>>

--------------------------------------------------------------------------
\* error and end handlers, and the pipe.

\* reject(error) / resolve(result): a settled promise stays as it is.
Reject(p) == IF p = "pending" THEN "rejected" ELSE p

Resolve(p) == IF p = "pending" THEN "fulfilled" ELSE p

\* Position in the stack of the innermost open tag called closeTo, 0 if none.
RECURSIVE OpenIndex(_, _)
OpenIndex(stack, closeTo) ==
  IF stack = <<>> THEN 0
  ELSE IF stack[Len(stack)] = closeTo THEN Len(stack)
  ELSE OpenIndex(SubSeq(stack, 1, Len(stack) - 1), closeTo)

\* An end tag that does not match the innermost open tag.  The parser signals
\* the error, the error handler rejects, the pipe is undone; the parser then
\* goes on with the chunk it was given: it closes every tag down to the one
\* named, or treats the end tag as text when no open tag has that name.
MismatchedClose(closeTo) ==
  /\ Parsing
  /\ pendingCloses = 0
  /\ tags # <<>>
  /\ closeTo # tags[Len(tags)]
  /\ promise' = Reject(promise)
  /\ stream' = "errchunk"
  /\ pendingCloses' =
       IF OpenIndex(tags, closeTo) = 0 THEN 0
       ELSE Len(tags) - OpenIndex(tags, closeTo) + 1
  /\ UNCHANGED <<elsewhere, invocation, args, output, capture, currentDepth, tags, events, startedAt, pc, exitCode>>

\* The chunk in which the error was signalled has been parsed to its end; no
\* further chunk is written to the parser.
ChunkParsed ==
  /\ pc = "extract"
  /\ stream = "errchunk"
  /\ pendingCloses = 0
  /\ stream' = "unpiped"
  /\ UNCHANGED <<elsewhere, invocation, args, output, capture, currentDepth, promise, tags,
                 pendingCloses, events, startedAt, pc, exitCode>>

\* The file stream ends and ends the parser: with tags still open the parser
\* signals an error before it emits end.
EndOfStream ==
  /\ pc = "extract"
  /\ stream = "piped"
  /\ promise' = IF tags # <<>> THEN Resolve(Reject(promise)) ELSE Resolve(promise)
  /\ stream' = "ended"
  /\ UNCHANGED <<elsewhere, invocation, args, output, capture, currentDepth, tags, pendingCloses,
                 events, startedAt, pc, exitCode>>

--------------------------------------------------------------------------
\* generateIndex and the CLI's then/catch.

IndexPath == FilePath("", <<"index">>, "json")

IndexEntry(c) ==
  [type |-> c.type, id |-> c.id, name |-> c.name,
   path |-> FilePath(c.type, StringOf(c.id), "xml")]

IndexEntries(list) == [i \in 1..Len(list) |-> IndexEntry(list[i])]

generateIndex(fs, list, now) ==
  WriteFile(fs, IndexPath,
            [kind |-> "index",
             body |-> [extractedAt |-> now, totalComponents |-> Len(list),
                       components |-> IndexEntries(list)]])

MainThen(now) ==
  /\ pc = "extract"
  /\ promise = "fulfilled"
  /\ files' = generateIndex(files, components, now)
  /\ writeLog' = Append(writeLog, IndexPath)
  /\ pc' = "done"
  /\ exitCode' = 0
  /\ UNCHANGED <<elsewhere, invocation, args, components, capture, currentDepth, promise, tags,
                 pendingCloses, stream, events, startedAt>>

MainCatch ==
  /\ pc = "extract"
  /\ promise = "rejected"
  /\ stream \in {"unpiped", "ended"}
  /\ pc' = "done"
  /\ exitCode' = 1
  /\ UNCHANGED <<elsewhere, invocation, args, output, capture, currentDepth, promise, tags,
                 pendingCloses, stream, events, startedAt>>

--------------------------------------------------------------------------
Next ==
  \/ \E name \in Tags, attributes \in AttributeLists : OpenTag(name, attributes)
  \/ \E text \in Texts : Text(text)
  \/ CloseTag
  \/ \E closeTo \in Tags : MismatchedClose(closeTo)
  \/ ChunkParsed
  \/ EndOfStream
  \/ \E now \in Clock : MainThen(now)
  \/ MainCatch

Spec == Init /\ [][Next]_vars

--------------------------------------------------------------------------
\* The CLI from its start: the test of the input path, the constructor, the
\* call of extract(), and a second run of the CLI on the same document.

\* The first run of the CLI on a document and the run that repeats it.
Runs == {1, 2}

Sources == {"missing", "unreadable", "readable"}

InitCli ==
  /\ \E call \in Invocations : componentType = call[1] /\ componentId = call[2]
  /\ source \in Sources
  /\ outputDirExists = FALSE
  /\ files = <<>>
  /\ pc = "main"
  /\ exitCode = -1
  /\ stream = "closed"
  /\ promise = "pending"
  /\ components = <<>>
  /\ capturingContent = FALSE
  /\ captureDepth = 0
  /\ currentDepth = 0
  /\ capturedContent = <<>>
  /\ componentMetadata = Null
  /\ writeLog = <<>>
  /\ tags = <<>>
  /\ pendingCloses = 0
  /\ events = <<>>
  /\ startedAt = <<>>
  /\ run = 1
  /\ firstFiles = <<>>
  /\ doc = <<>>
  /\ NotAnalyzing
  /\ NotReporting
  /\ NotScanning
  /\ NotLooping

\* if (!fs.existsSync(xmlFilePath)) { console.error(...); process.exit(1) }
MainStart ==
  /\ pc = "main"
  /\ IF source = "missing"
     THEN pc' = "done" /\ exitCode' = 1
     ELSE pc' = "new" /\ exitCode' = exitCode
  /\ UNCHANGED <<elsewhere, args, output, capture, currentDepth, promise, tags,
                 pendingCloses, stream, events, startedAt, invocation>>

\* Mutant: a constructor that keeps the list it finds.
ConstructedComponentsKept(found) == found

\* this.components = []
ConstructedComponents(found) == <<>>

\* new ComponentExtractor(outputDir) and the call of extract(): the fields
\* and the locals are initialised, the output directory is made, the file
\* stream is piped into the parser.  A file that cannot be read yields no
\* data: its stream is about to emit error.
Construct ==
  /\ pc = "new"
  /\ components' = ConstructedComponents(components)
  /\ captureDepth' = 0
  /\ capturingContent' = FALSE
  /\ outputDirExists' = TRUE
  /\ currentDepth' = 0
  /\ capturedContent' = <<>>
  /\ componentMetadata' = Null
  /\ promise' = "pending"
  /\ tags' = <<>>
  /\ pendingCloses' = 0
  /\ events' = <<>>
  /\ startedAt' = <<>>
  /\ writeLog' = <<>>
  /\ stream' = IF source = "readable" THEN "piped" ELSE "erroring"
  /\ pc' = "extract"
  /\ UNCHANGED <<elsewhere, args, files, exitCode, source, run, firstFiles, doc>>

\* The file stream emits error.  It has no error listener and pipe() does
\* not forward the error to the parser: the exception is uncaught and ends
\* the process.
ReadError ==
  /\ pc = "extract"
  /\ stream = "erroring"
  /\ stream' = "unpiped"
  /\ pc' = "done"
  /\ exitCode' = 1
  /\ UNCHANGED <<elsewhere, args, output, capture, currentDepth, promise, tags,
                 pendingCloses, events, startedAt, invocation>>

\* The CLI is run again on the same document with the same arguments, after
\* a run that succeeded.
Rerun ==
  /\ pc = "done"
  /\ exitCode = 0
  /\ run + 1 \in Runs
  /\ run' = run + 1
  /\ firstFiles' = IF run = 1 THEN files ELSE firstFiles
  /\ doc' = events
  /\ pc' = "main"
  /\ exitCode' = -1
  /\ stream' = "closed"
  /\ UNCHANGED <<elsewhere, args, output, capture, currentDepth, promise, tags,
                 pendingCloses, events, startedAt, source, outputDirExists>>

\* A later run reads the document the first run read.
Replay ==
  run > 1 => /\ Len(events') <= Len(doc)
             /\ events' = SubSeq(doc, 1, Len(events'))
             /\ stream' # "errchunk"
             /\ stream' = "ended" => events' = doc

NextCli ==
  \/ MainStart
  \/ Construct
  \/ ReadError
  \/ Rerun
  \/ Next /\ Replay

SpecCli == InitCli /\ [][NextCli]_vars

--------------------------------------------------------------------------
\* The extraction CLI has not been started.
NotExtracting ==
  /\ componentType = "all"
  /\ componentId = Null
  /\ components = <<>>
  /\ capturingContent = FALSE
  /\ captureDepth = 0
  /\ currentDepth = 0
  /\ capturedContent = <<>>
  /\ componentMetadata = Null
  /\ promise = "pending"
  /\ files = <<>>
  /\ writeLog = <<>>
  /\ tags = <<>>
  /\ pendingCloses = 0
  /\ stream = "closed"
  /\ events = <<>>
  /\ startedAt = <<>>
  /\ pc = "main"
  /\ exitCode = -1
  /\ source = "readable"
  /\ outputDirExists = FALSE
  /\ run = 1
  /\ firstFiles = <<>>
  /\ doc = <<>>

extraction == <<componentType, componentId, components, capturingContent, captureDepth,
                currentDepth, capturedContent, componentMetadata, promise, files,
                writeLog, tags, pendingCloses, stream, events, startedAt, pc, exitCode,
                invocation>>

--------------------------------------------------------------------------
\* What the analyzer, the two-call extractor and the loop each leave alone.
exceptAnalysis == <<extraction, scanning, looping, reporting>>

exceptScanning == <<extraction, analysis, looping, reporting>>

exceptLooping == <<extraction, analysis, scanning, reporting>>

--------------------------------------------------------------------------
\* BPMNAnalyzer (analyze-bpmn.js): the two patterns of data bindings.

\* The literal lit stands in s at position i.
At(s, i, lit) ==
  /\ i >= 1
  /\ i + Len(lit) - 1 <= Len(s)
  /\ SubSeq(s, i, i + Len(lit) - 1) = lit

\* String.prototype.includes
Includes(s, sub) == \E i \in 1..(Len(s) + 1) : At(s, i, sub)

\* \w, over the characters the attribute values are made of.
IsWord(c) == c \in {"a", "b", "c", "e", "h", "n", "o", "t", "v", "w", "x"}

\* \w+ from position j, greedy: the position of its last character, j - 1
\* when s[j] is no word character.
RECURSIVE WordEnd(_, _)
WordEnd(s, j) ==
  IF j <= Len(s) /\ IsWord(s[j]) THEN WordEnd(s, j + 1) ELSE j - 1

\* (\.\w+)* after position k, greedy: the position of its last character.
RECURSIVE PathEnd(_, _)
PathEnd(s, k) ==
  IF k + 2 <= Len(s) /\ s[k + 1] = "." /\ IsWord(s[k + 2])
  THEN PathEnd(s, WordEnd(s, k + 2))
  ELSE k

\* (local|system|env)
Scopes == {<<"l", "o", "c", "a", "l">>, <<"s", "y", "s", "t", "e", "m">>, <<"e", "n", "v">>}

\* /tw\.(local|system|env)\.\w+(\.\w+)*/ tried at position i: the position
\* of the last character of the match, 0 when there is none.
TwMatchEnd(s, i) ==
  LET found == {sc \in Scopes : At(s, i, <<"t", "w", ".">> \o sc \o <<".">>)}
  IN IF found = {} THEN 0
     ELSE LET sc == CHOOSE x \in found : TRUE
              j == i + Len(sc) + 4
          IN IF WordEnd(s, j) < j THEN 0 ELSE PathEnd(s, WordEnd(s, j))

\* Position of the first "}" of s from position j on, 0 when there is none.
RECURSIVE ClosingBrace(_, _)
ClosingBrace(s, j) ==
  IF j > Len(s) THEN 0
  ELSE IF s[j] = "}" THEN j
  ELSE ClosingBrace(s, j + 1)

\* /#\{[^}]+\}/ tried at position i.
ExprMatchEnd(s, i) ==
  IF At(s, i, <<"#", "{">>) /\ ClosingBrace(s, i + 2) > i + 2
  THEN ClosingBrace(s, i + 2)
  ELSE 0

\* value.match(/tw.../g): the matches from position i on, left to right,
\* each search starting after the previous match; <<>> stands for null.
RECURSIVE TwMatches(_, _)
TwMatches(s, i) ==
  IF i > Len(s) THEN <<>>
  ELSE IF TwMatchEnd(s, i) = 0 THEN TwMatches(s, i + 1)
  ELSE <<SubSeq(s, i, TwMatchEnd(s, i))>> \o TwMatches(s, TwMatchEnd(s, i) + 1)

\* value.match(/#\{[^}]+\}/g)
RECURSIVE ExprMatches(_, _)
ExprMatches(s, i) ==
  IF i > Len(s) THEN <<>>
  ELSE IF ExprMatchEnd(s, i) = 0 THEN ExprMatches(s, i + 1)
  ELSE <<SubSeq(s, i, ExprMatchEnd(s, i))>> \o ExprMatches(s, ExprMatchEnd(s, i) + 1)

Elements(seq) == {seq[i] : i \in DOMAIN seq}

\* Mutant: only the tw.* bindings of a value are added.
AddBindingsTwOnly(bindings, value) ==
  IF value.t # "string" THEN bindings
  ELSE bindings \cup Elements(TwMatches(value.v, 1))

\* The body of the loop over the attributes, for one value.
AddBindings(bindings, value) ==
  IF value.t # "string" THEN bindings
  ELSE (bindings \cup Elements(TwMatches(value.v, 1)))
         \cup Elements(ExprMatches(value.v, 1))

\* for (const [key, value] of Object.entries(node.attributes))
RECURSIVE BindingsOf(_, _)
BindingsOf(bindings, attributes) ==
  IF attributes = <<>> THEN bindings
  ELSE BindingsOf(AddBindings(bindings, Head(attributes).val), Tail(attributes))

--------------------------------------------------------------------------
\* BPMNAnalyzer: the handlers of analyze() and the report.

MaxAnalyzed == 5

AnalyzedTags == {"coachView", "service", "process", "scriptTask"}

\* Attribute lists of the analyzed documents; with xmlns off an attribute
\* value is a string.
AnalyzedAttributes ==
  { <<>>,
    <<[key |-> "type", val |-> Str(<<"a", " ", "c", "o", "a", "c", "h">>)],
      [key |-> "v", val |-> Str(<<"#", "{", "x", "}", " ", "t", "w", ".", "e", "n", "v", ".", "a", ".">>)]>>,
    <<[key |-> "v", val |-> Str(<<"t", "w", ".", "e", "n", "v", ".", "a", " ", "t", "w", ".", "e", "n", "v", ".", "a", ".", "b">>)],
      [key |-> "w", val |-> Str(<<"#", "{", "}", " ", "t", "w", ".", "x", ".", "a", " ", "#", "{", "x", "}">>)]>> }

\* this.elementCounts[name] = (this.elementCounts[name] || 0) + 1
CountElement(counts, name) ==
  [n \in DOMAIN counts \cup {name} |->
     IF n = name THEN (IF name \in DOMAIN counts THEN counts[name] + 1 ELSE 1)
     ELSE counts[n]]

\* node.name === 'coachView' || node.attributes.type?.includes('coach')
IsCoachView(name, attributes) ==
  \/ name = "coachView"
  \/ /\ Attr(attributes, "type").t = "string"
     /\ Includes(Attr(attributes, "type").v, <<"c", "o", "a", "c", "h">>)

PushIf(list, cond, entry) == IF cond THEN Append(list, entry) ELSE list

\* The opentag handler.
opentag(self, name, attributes) ==
  LET depth == self.nestingDepth + 1
      path == Append(self.currentPath, name)
      \* the fields the four kinds of entry share; extra is the type of a
      \* coach view, the isExecutable of a process, the implementation of a
      \* service task
      entry == [kind |-> "", id |-> Attr(attributes, "id"),
                name |-> Attr(attributes, "name"), extra |-> Undefined,
                nestingLevel |-> depth, path |-> path, attributes |-> attributes]
  IN [nestingDepth |-> depth,
      maxNestingDepth |-> IF depth > self.maxNestingDepth THEN depth
                          ELSE self.maxNestingDepth,
      currentPath |-> path,
      elementCounts |-> CountElement(self.elementCounts, name),
      coachViews |->
        PushIf(self.coachViews, IsCoachView(name, attributes),
               [entry EXCEPT !.kind = "coachView", !.extra = Attr(attributes, "type")]),
      humanServices |->
        PushIf(self.humanServices, name \in {"humanService", "service"},
               [entry EXCEPT !.kind = "humanService"]),
      bpdProcesses |->
        PushIf(self.bpdProcesses, name \in {"process", "bpdProcess"},
               [entry EXCEPT !.kind = "bpdProcess",
                             !.extra = Attr(attributes, "isExecutable")]),
      serviceTasks |->
        PushIf(self.serviceTasks, name \in {"serviceTask", "scriptTask"},
               [entry EXCEPT !.kind = "serviceTask",
                             !.extra = Attr(attributes, "implementation")]),
      dataBindings |-> BindingsOf(self.dataBindings, attributes)]

\* Array.prototype.pop
Pop(list) == IF list = <<>> THEN list ELSE SubSeq(list, 1, Len(list) - 1)

\* Mutant: the handler forgets to pop the path.
closetagKeepsPath(self) == [self EXCEPT !.nestingDepth = self.nestingDepth - 1]

\* The closetag handler.
closetag(self) ==
  [self EXCEPT !.nestingDepth = self.nestingDepth - 1,
               !.currentPath = Pop(self.currentPath)]

\* Mutant: the nesting depth lowers the score.
calculateComplexityScorePenalised(self) ==
  (Len(self.coachViews) + Len(self.humanServices)) * 2
  - self.maxNestingDepth * 5
  + Cardinality(self.dataBindings) * 1
  + Len(self.serviceTasks) * 3

calculateComplexityScore(self) ==
  (Len(self.coachViews) + Len(self.humanServices)) * 2
  + self.maxNestingDepth * 5
  + Cardinality(self.dataBindings) * 1
  + Len(self.serviceTasks) * 3

getComplexityRecommendation(self) ==
  LET score == calculateComplexityScore(self)
  IN IF score < 50 THEN "LOW"
     ELSE IF score < 150 THEN "MEDIUM"
     ELSE IF score < 300 THEN "HIGH"
     ELSE "VERY HIGH"

calculateComplexity(self) ==
  [score |-> calculateComplexityScore(self),
   factors |-> [componentCount |-> Len(self.coachViews) + Len(self.humanServices)
                                     + Len(self.bpdProcesses),
                nestingDepth |-> self.maxNestingDepth,
                dataBindingComplexity |-> Cardinality(self.dataBindings),
                serviceTaskCount |-> Len(self.serviceTasks)],
   recommendation |-> getComplexityRecommendation(self)]

\* UTF-16 code unit of a character of the attribute values.
CharCode(c) ==
  CASE c = " " -> 32 [] c = "#" -> 35 [] c = "." -> 46
    [] c = "a" -> 97 [] c = "b" -> 98 [] c = "c" -> 99 [] c = "e" -> 101
    [] c = "h" -> 104 [] c = "n" -> 110 [] c = "o" -> 111 [] c = "t" -> 116
    [] c = "v" -> 118 [] c = "w" -> 119 [] c = "x" -> 120
    [] c = "{" -> 123 [] c = "}" -> 125

\* a < b in the order of Array.prototype.sort() without a comparator.
RECURSIVE Before(_, _)
Before(a, b) ==
  IF b = <<>> THEN FALSE
  ELSE IF a = <<>> THEN TRUE
  ELSE IF Head(a) = Head(b) THEN Before(Tail(a), Tail(b))
  ELSE CharCode(Head(a)) < CharCode(Head(b))

\* Array.from(set).sort()
RECURSIVE Sorted(_)
Sorted(set) ==
  IF set = {} THEN <<>>
  ELSE LET least == CHOOSE x \in set : \A y \in set \ {x} : Before(x, y)
       IN <<least>> \o Sorted(set \ {least})

generateReport(self) ==
  [summary |-> [totalCoachViews |-> Len(self.coachViews),
                totalHumanServices |-> Len(self.humanServices),
                totalBPDProcesses |-> Len(self.bpdProcesses),
                totalServiceTasks |-> Len(self.serviceTasks),
                uniqueDataBindings |-> Cardinality(self.dataBindings),
                maxNestingDepth |-> self.maxNestingDepth,
                elementTypeCounts |-> self.elementCounts],
   coachViews |-> self.coachViews,
   humanServices |-> self.humanServices,
   bpdProcesses |-> self.bpdProcesses,
   serviceTasks |-> self.serviceTasks,
   dataBindings |-> Sorted(self.dataBindings),
   complexity |-> calculateComplexity(self)]

--------------------------------------------------------------------------
\* analyze(): the calls, the parser's events, the end of the stream.

\* The first scan of an instance and the scan that follows it.
Scans == {1, 2}

\* analyze(xmlFilePath): a new parser and a new pipe; the fields of the
\* instance are as the previous call left them.
Analyze ==
  /\ aStream \in {"idle", "unpiped", "ended"}
  /\ scans + 1 \in Scans
  /\ scans' = scans + 1
  /\ aStream' = "piped"
  /\ aPromise' = "pending"
  /\ report' = Null
  /\ aTags' = <<>>
  /\ aPending' = 0
  /\ analyzed' = <<>>
  /\ UNCHANGED <<analyzer, handled, exceptAnalysis>>

Analyzing == aStream \in {"piped", "errchunk"}

AnalyzerOpen(name, attributes) ==
  /\ Analyzing
  /\ aPending = 0
  /\ aTags # <<>> \/ analyzed = <<>>
  /\ handled + Len(aTags) + 2 <= MaxAnalyzed
  /\ analyzer' = opentag(analyzer, name, attributes)
  /\ aTags' = Append(aTags, name)
  /\ analyzed' = Append(analyzed, [type |-> "open", name |-> name,
                                   attributes |-> attributes])
  /\ handled' = handled + 1
  /\ UNCHANGED <<aStream, aPromise, report, aPending, scans, exceptAnalysis>>

AnalyzerClose ==
  /\ Analyzing
  /\ aTags # <<>>
  /\ analyzer' = closetag(analyzer)
  /\ aTags' = Pop(aTags)
  /\ aPending' = IF aPending > 0 THEN aPending - 1 ELSE 0
  /\ analyzed' = Append(analyzed, [type |-> "close", name |-> aTags[Len(aTags)]])
  /\ handled' = handled + 1
  /\ UNCHANGED <<aStream, aPromise, report, scans, exceptAnalysis>>

\* An end tag that does not match the innermost open tag: the error handler
\* rejects, the pipe is undone, the parser goes on with the chunk.
AnalyzerMismatch(closeTo) ==
  /\ Analyzing
  /\ aPending = 0
  /\ aTags # <<>>
  /\ closeTo # aTags[Len(aTags)]
  /\ aPromise' = Reject(aPromise)
  /\ aStream' = "errchunk"
  /\ aPending' =
       IF OpenIndex(aTags, closeTo) = 0 THEN 0
       ELSE Len(aTags) - OpenIndex(aTags, closeTo) + 1
  /\ UNCHANGED <<analyzer, report, aTags, analyzed, scans, handled, exceptAnalysis>>

AnalyzerChunkParsed ==
  /\ aStream = "errchunk"
  /\ aPending = 0
  /\ aStream' = "unpiped"
  /\ UNCHANGED <<analyzer, aPromise, report, aTags, aPending, analyzed, scans,
                 handled, exceptAnalysis>>

\* The file stream ends and ends the parser: with tags still open the parser
\* signals an error before it emits end; the end handler resolves with the
\* report.
AnalyzerEnd ==
  /\ aStream = "piped"
  /\ aStream' = "ended"
  /\ aPromise' = IF aTags # <<>> THEN Resolve(Reject(aPromise)) ELSE Resolve(aPromise)
  /\ report' = IF aTags = <<>> /\ aPromise = "pending"
               THEN generateReport(analyzer) ELSE report
  /\ UNCHANGED <<analyzer, aTags, aPending, analyzed, scans, handled, exceptAnalysis>>

InitAnalyze ==
  NotAnalyzing /\ NotReporting /\ NotExtracting /\ NotScanning /\ NotLooping

NextAnalyze ==
  \/ Analyze
  \/ \E name \in AnalyzedTags, attributes \in AnalyzedAttributes :
       AnalyzerOpen(name, attributes)
  \/ AnalyzerClose
  \/ \E closeTo \in AnalyzedTags : AnalyzerMismatch(closeTo)
  \/ AnalyzerChunkParsed
  \/ AnalyzerEnd

SpecAnalyze == InitAnalyze /\ [][NextAnalyze]_vars

--------------------------------------------------------------------------
\* The analyze CLI: main checks its argument, makes one analyzer, calls
\* analyze() once and writes the two reports next to the input.

\* toLowerCase, for the letters the pattern of main names (the i flag).
LowerCase(c) ==
  CASE c = "X" -> "x" [] c = "M" -> "m" [] c = "L" -> "l"
    [] c = "B" -> "b" [] c = "P" -> "p" [] c = "N" -> "n"
    [] OTHER -> c

EndsWith(s, suffix) ==
  /\ Len(s) >= Len(suffix)
  /\ [i \in 1..Len(suffix) |-> LowerCase(s[Len(s) - Len(suffix) + i])] = suffix

\* Length of the match of /\.(xml|bpmn)$/i in path, 0 without a match.
ExtensionMatch(path) ==
  IF EndsWith(path, <<".", "x", "m", "l">>) THEN 4
  ELSE IF EndsWith(path, <<".", "b", "p", "m", "n">>) THEN 5
  ELSE 0

\* xmlFilePath.replace(/\.(xml|bpmn)$/i, replacement)
ReplaceExtension(path, replacement) ==
  IF ExtensionMatch(path) = 0 THEN path
  ELSE SubSeq(path, 1, Len(path) - ExtensionMatch(path)) \o replacement

JsonSuffix == <<"-", "a", "n", "a", "l", "y", "s", "i", "s", ".", "j", "s", "o", "n">>

MdSuffix == <<"-", "a", "n", "a", "l", "y", "s", "i", "s", ".", "m", "d">>

\* The paths the CLI is started with.
InputPaths ==
  { <<"p", ".", "x", "m", "l">>, <<"p", ".", "X", "M", "L">>,
    <<"p", ".", "b", "p", "m", "n">>, <<"p", ".", "t", "w", "x">>, <<"p">>,
    <<"p", ".", "x", "m", "l", ".", "b", "a", "k">> }

\* The input document as a file.
Document == [kind |-> "document"]

InitAnalyzeCli ==
  /\ NotAnalyzing /\ NotExtracting /\ NotScanning /\ NotLooping
  /\ \/ argv = <<>> /\ folder = <<>>
     \/ \E path \in InputPaths :
          /\ argv = <<path>>
          /\ folder \in {<<>>, WriteFile(<<>>, path, Document)}
  /\ aExit = -1

\* args.length === 0 or !fs.existsSync(xmlFilePath): process.exit(1)
MainRefuses ==
  /\ aExit = -1
  /\ IF argv = <<>> THEN TRUE ELSE argv[1] \notin DOMAIN folder
  /\ aExit' = 1
  /\ UNCHANGED <<argv, folder, analysis, extraction, scanning, looping>>

\* new BPMNAnalyzer(); analyzer.analyze(xmlFilePath)
MainAnalyzes ==
  /\ aExit = -1
  /\ scans = 0
  /\ argv # <<>>
  /\ argv[1] \in DOMAIN folder
  /\ Analyze

\* .then((report) => ...): the summary is printed and the two reports are
\* written.
MainReports ==
  /\ aExit = -1
  /\ aPromise = "fulfilled"
  /\ folder' = WriteFile(
                 WriteFile(folder, ReplaceExtension(argv[1], JsonSuffix),
                           [kind |-> "json", body |-> report]),
                 ReplaceExtension(argv[1], MdSuffix),
                 [kind |-> "markdown", body |-> report.summary])
  /\ aExit' = 0
  /\ UNCHANGED <<argv, analysis, extraction, scanning, looping>>

\* .catch((error) => ...): process.exit(1)
MainFails ==
  /\ aExit = -1
  /\ aPromise = "rejected"
  /\ aExit' = 1
  /\ UNCHANGED <<argv, folder, analysis, extraction, scanning, looping>>

NextAnalyzeCli ==
  \/ MainRefuses
  \/ MainAnalyzes
  \/ \E name \in AnalyzedTags, attributes \in AnalyzedAttributes :
       aExit = -1 /\ AnalyzerOpen(name, attributes)
  \/ aExit = -1 /\ AnalyzerClose
  \/ \E closeTo \in AnalyzedTags : aExit = -1 /\ AnalyzerMismatch(closeTo)
  \/ aExit = -1 /\ AnalyzerChunkParsed
  \/ aExit = -1 /\ AnalyzerEnd
  \/ MainReports
  \/ MainFails

SpecAnalyzeCli == InitAnalyzeCli /\ [][NextAnalyzeCli]_vars

--------------------------------------------------------------------------
\* One ComponentExtractor on which extract() is called twice: the second
\* call is made while the first is in flight, or after it has settled.  The
\* locals of a call are its own; components, captureDepth and
\* capturingContent are fields of the instance.  Both calls are made with
\* component type 'all' and no id; the documents are well-formed or truncated.

MaxScanned == 4

\* Attribute lists and texts of the documents of the two calls.
ScannedAttributes == { <<>>, <<[key |-> "id", val |-> AttrObj(IdB)]>> }

ScannedTexts == { <<" ", "&">> }

\* Events of both calls so far.
Scanned == Len(calls[1].events) + Len(calls[2].events)

\* extract(): new locals, a new parser, a new pipe.
Extract(c) ==
  /\ ~crashed
  /\ calls[c].status = "none"
  /\ c = 1 \/ calls[1].status # "none"
  /\ calls' = [calls EXCEPT ![c].status = "piped",
                            ![c].sequential = (c = 2 /\ calls[1].status # "piped")]
  /\ UNCHANGED <<instance, disk, crashed, exceptScanning>>

\* The opentag handler of call c.
ScanOpen(c, name, attributes) ==
  LET my == calls[c]
      start == StartsCapture(instance.capturingContent,
                             shouldCapture(componentType, componentId, name, attributes))
      capDepth == IF start THEN my.currentDepth ELSE instance.captureDepth
      capturing == instance.capturingContent \/ start
      content == IF start THEN <<>> ELSE my.capturedContent
  IN /\ ~crashed
     /\ my.status = "piped"
     /\ my.tags # <<>> \/ my.events = <<>>
     /\ Scanned < MaxScanned
     /\ instance' = [instance EXCEPT !.capturingContent = capturing,
                                     !.captureDepth = capDepth]
     /\ calls' = [calls EXCEPT
          ![c].componentMetadata =
            IF start THEN NewMetadata(name, attributes) ELSE my.componentMetadata,
          ![c].capturedContent =
            IF capturing
            THEN Append(content, OpenItem(name, attributes, my.currentDepth - capDepth))
            ELSE content,
          ![c].currentDepth = my.currentDepth + 1,
          ![c].tags = Append(my.tags, name),
          ![c].events = Append(my.events, [type |-> "open", name |-> name,
                                           attributes |-> attributes])]
     /\ UNCHANGED <<disk, crashed, exceptScanning>>

\* The text handler of call c.
ScanText(c, text) ==
  LET my == calls[c]
  IN /\ ~crashed
     /\ my.status = "piped"
     /\ my.tags # <<>>
     /\ Scanned < MaxScanned
     /\ calls' = [calls EXCEPT
          ![c].capturedContent =
            IF KeepsText(instance.capturingContent, text)
            THEN Append(my.capturedContent, TextItem(text))
            ELSE my.capturedContent,
          ![c].events = Append(my.events, [type |-> "text", value |-> text])]
     /\ UNCHANGED <<instance, disk, crashed, exceptScanning>>

\* The closetag handler of call c.  saveComponent reads metadata.type first:
\* with componentMetadata null it throws, and nothing catches the exception.
ScanClose(c) ==
  LET my == calls[c]
      depth == my.currentDepth - 1
      content == Append(my.capturedContent,
                        CloseItem(my.tags[Len(my.tags)], depth - instance.captureDepth))
      finished == instance.capturingContent
                    /\ CaptureFinished(depth, instance.captureDepth)
      closed == [my EXCEPT !.currentDepth = depth,
                           !.tags = Pop(my.tags),
                           !.events = Append(my.events,
                                             [type |-> "close",
                                              name |-> my.tags[Len(my.tags)]])]
  IN /\ ~crashed
     /\ my.status = "piped"
     /\ my.tags # <<>>
     /\ IF ~instance.capturingContent
        THEN /\ calls' = [calls EXCEPT ![c] = closed]
             /\ UNCHANGED <<instance, disk, crashed>>
        ELSE IF ~finished
        THEN /\ calls' = [calls EXCEPT ![c] = [closed EXCEPT !.capturedContent = content]]
             /\ UNCHANGED <<instance, disk, crashed>>
        ELSE IF my.componentMetadata = Null
        THEN /\ calls' = [calls EXCEPT ![c] = [closed EXCEPT !.capturedContent = content]]
             /\ crashed' = TRUE
             /\ UNCHANGED <<instance, disk>>
        ELSE /\ disk' = saveComponent(disk, my.componentMetadata, content)
             /\ instance' =
                  [instance EXCEPT
                     !.components = PushComponent(instance.components, my.componentMetadata),
                     !.capturingContent = FALSE]
             /\ calls' = [calls EXCEPT ![c] =
                  [closed EXCEPT !.capturedContent = <<>>,
                                 !.componentMetadata = Null,
                                 !.produced = Append(my.produced, my.componentMetadata)]]
             /\ UNCHANGED crashed
     /\ UNCHANGED <<exceptScanning>>

\* The file stream of call c ends: with tags still open the parser signals
\* an error (the promise is rejected) before it emits end; the end handler
\* resolves with the length of this.components and the array itself.
ScanEnd(c) ==
  /\ ~crashed
  /\ calls[c].status = "piped"
  /\ calls' = [calls EXCEPT
       ![c].status = IF calls[c].tags # <<>> THEN "rejected" ELSE "fulfilled",
       ![c].extractedCount =
         IF calls[c].tags # <<>> THEN -1 ELSE Len(instance.components)]
  /\ UNCHANGED <<instance, disk, crashed, exceptScanning>>

InitScans ==
  NotScanning /\ NotExtracting /\ NotAnalyzing /\ NotReporting /\ NotLooping

NextScans ==
  \/ \E c \in CallIds : Extract(c)
  \/ \E c \in CallIds, name \in Tags, attributes \in ScannedAttributes :
       ScanOpen(c, name, attributes)
  \/ \E c \in CallIds, text \in ScannedTexts : ScanText(c, text)
  \/ \E c \in CallIds : ScanClose(c)
  \/ \E c \in CallIds : ScanEnd(c)

SpecScans == InitScans /\ [][NextScans]_vars

--------------------------------------------------------------------------
\* The Ralphy loop: the session works on a task and tries to stop, the stop
\* hook runs and allows the exit or blocks it with the next prompt.

MaxTasks == 3

MaxIterations == 4

\* The PRD files of the model: a file is its path and the completed mark of
\* each of its task lines, in the order of the lines.
PrdPaths == {"PRD.md", "tasks.yaml"}

\* [[ "$PRD_FILE" == *.yaml ]] || [[ "$PRD_FILE" == *.yml ]]
DetectFormat(path) ==
  IF path \in {"tasks.yaml", "tasks.yml"} THEN "yaml" ELSE "markdown"

\* The lines grep finds: '^\- \[ \] ' or 'completed: false'.
IncompleteTasks(file) == {i \in DOMAIN file.tasks : ~file.tasks[i]}

\* grep -m1 '^\- \[ \] ' "$PRD_FILE" | sed 's/^- \[ \] //': the text of the
\* first incomplete task, given by its line; 0 is the empty text.
FirstTask(file) ==
  IF IncompleteTasks(file) = {} THEN 0
  ELSE CHOOSE i \in IncompleteTasks(file) : \A j \in IncompleteTasks(file) : i <= j

\* What the setup script prints, as a message of the transcript: the task
\* line it names (0: none).
SetupMessage(task) == [role |-> "user", promise |-> FALSE, task |-> task]

\* The prompt the hook prints, which holds the text of the promise.
Prompt(task) == [role |-> "user", promise |-> TRUE, task |-> task]

\* What the prompt names: the first incomplete task of a markdown PRD, and
\* no task of a YAML PRD.
NamedTask(format, file) == IF format = "markdown" THEN FirstTask(file) ELSE 0

InitLoop ==
  /\ \E path \in PrdPaths, n \in 1..MaxTasks, m \in 0..1 :
       prd = [exists |-> TRUE, path |-> path,
              tasks |-> [i \in 1..(m + n) |-> i <= m]]
  /\ \E skipTests, skipLint, browser \in BOOLEAN :
       stateFile = StateFile(prd.path, DetectFormat(prd.path),
                             [DefaultOptions EXCEPT !.skip_tests = skipTests,
                                                    !.skip_lint = skipLint,
                                                    !.browser_enabled = browser],
                             1)
  /\ transcript = <<SetupMessage(NamedTask(stateFile.prd_format, prd))>>
  /\ transcriptReadable \in BOOLEAN
  /\ hookOutput = NoOutput
  /\ command = [name |-> "ralphy-loop", exit |-> 0]
  /\ marked = 0
  /\ phase = "working"

\* grep '"role":"assistant"' "$TRANSCRIPT_PATH"
AssistantLines(lines) == SelectSeq(lines, LAMBDA m : m.role = "assistant")

\* Mutant: head -1 instead of tail -1.
FirstOutputPromises(lines) ==
  AssistantLines(lines) # <<>> /\ AssistantLines(lines)[1].promise

\* ... | tail -1 | jq ... ; echo "$LAST_OUTPUT" | grep -q '<promise>...'
LastOutputPromises(lines) ==
  /\ AssistantLines(lines) # <<>>
  /\ AssistantLines(lines)[Len(AssistantLines(lines))].promise

\* INCOMPLETE_COUNT=$(grep -c ... "$PRD_FILE" 2>/dev/null || echo "0"): the
\* lines of the captured output.  Without a matching line grep prints 0 and
\* fails, and echo prints a second 0.
IncompleteCount(n) == IF n = 0 THEN <<0, 0>> ELSE <<n>>

\* [[ "$INCOMPLETE_COUNT" -eq 0 ]]: a value of two lines is no arithmetic
\* expression, the test fails.
IsZero(lines) == Len(lines) = 1 /\ lines[1] = 0

\* The session works on the PRD: it marks the tasks of done complete, and
\* its last message holds the promise or not.
Iterate(done, says) ==
  /\ phase = "working"
  /\ Len(AssistantLines(transcript)) < MaxIterations
  /\ prd' = IF prd.exists
            THEN [prd EXCEPT !.tasks = [i \in DOMAIN @ |-> @[i] \/ i \in done]]
            ELSE prd
  /\ marked' = IF prd.exists THEN marked + Cardinality(done) ELSE marked
  /\ transcript' = Append(transcript,
                          [role |-> "assistant", promise |-> says, task |-> 0])
  /\ phase' = "stopping"
  /\ UNCHANGED <<stateFile, transcriptReadable, hookOutput, command, exceptLooping>>

\* The PRD file is deleted while the loop is active.
RemovePrd ==
  /\ phase = "working"
  /\ prd.exists
  /\ prd' = [prd EXCEPT !.exists = FALSE]
  /\ UNCHANGED <<stateFile, transcript, transcriptReadable, hookOutput, command,
                 marked, phase, exceptLooping>>

\* The prd_file line of the state file loses its value.
CorruptState ==
  /\ phase = "working"
  /\ stateFile.exists
  /\ stateFile.prd_file # ""
  /\ stateFile' = [stateFile EXCEPT !.prd_file = ""]
  /\ UNCHANGED <<prd, transcript, transcriptReadable, hookOutput, command,
                 marked, phase, exceptLooping>>

\* exit 0 without output: the session exits.
AllowExit(file) ==
  /\ stateFile' = file
  /\ hookOutput' = [NoOutput EXCEPT !.decision = "allow"]
  /\ phase' = "exited"
  /\ UNCHANGED transcript

\* Mutant: the sed that rewrites the counters also resets max_retries.
UpdatedResettingRetries(file) ==
  [file EXCEPT !.current_task = @ + 1, !.tasks_completed = @ + 1,
               !.retry_count = 0, !.max_retries = 0]

\* sed -e "s/^current_task: .*/.../" -e "s/^tasks_completed: .*/.../"
\*     -e "s/^retry_count: .*/retry_count: 0/"
Updated(file) ==
  [file EXCEPT !.current_task = @ + 1, !.tasks_completed = @ + 1,
               !.retry_count = 0]

\* The state file is rewritten, the JSON with decision block is printed and
\* its reason becomes the next prompt of the session.
BlockExit ==
  /\ stateFile' = Updated(stateFile)
  /\ hookOutput' = [decision |-> "block",
                    completed |-> stateFile.tasks_completed + 1,
                    remaining |-> IncompleteCount(Cardinality(IncompleteTasks(prd))),
                    iteration |-> stateFile.current_task + 1,
                    tests |-> ~stateFile.skip_tests,
                    lint |-> ~stateFile.skip_lint,
                    browser |-> stateFile.browser_enabled,
                    nextTask |-> NamedTask(stateFile.prd_format, prd),
                    generic |-> stateFile.prd_format # "markdown"]
  /\ transcript' = Append(transcript, Prompt(NamedTask(stateFile.prd_format, prd)))
  /\ phase' = "working"

\* stop-hook.sh
StopHook ==
  /\ phase = "stopping"
  /\ IF ~stateFile.exists THEN AllowExit(stateFile)
     ELSE IF stateFile.prd_file = "" \/ ~prd.exists THEN AllowExit(Removed(stateFile))
     ELSE IF transcriptReadable /\ LastOutputPromises(transcript)
          THEN AllowExit(Removed(stateFile))
     ELSE IF IsZero(IncompleteCount(Cardinality(IncompleteTasks(prd))))
          THEN AllowExit(Removed(stateFile))
     ELSE BlockExit
  /\ UNCHANGED <<prd, transcriptReadable, command, marked, exceptLooping>>

InitLooping ==
  InitLoop /\ NotExtracting /\ NotAnalyzing /\ NotReporting /\ NotScanning

NextLoop ==
  \/ \E done \in SUBSET IncompleteTasks(prd), says \in BOOLEAN : Iterate(done, says)
  \/ RemovePrd
  \/ CorruptState
  \/ StopHook

SpecLoop == InitLooping /\ [][NextLoop]_vars

\* The loop in which every iteration marks at least one incomplete task
\* complete while there is one, the promise is never output and nobody
\* touches the files; the session and the hook are always run.
NextProgress ==
  \/ \E done \in SUBSET IncompleteTasks(prd) :
       /\ IncompleteTasks(prd) # {} => done # {}
       /\ Iterate(done, FALSE)
  \/ StopHook

SpecLoopFair == InitLooping /\ [][NextProgress]_vars /\ WF_vars(NextProgress)

--------------------------------------------------------------------------
\* The session with its commands: /ralphy-loop runs the setup script,
\* /cancel-ralphy removes the state file, the stop hook runs whenever the
\* session tries to stop.

\* The options /ralphy-loop is run with.
SetupOptions ==
  {DefaultOptions,
   [skip_tests |-> TRUE, skip_lint |-> TRUE, browser_enabled |-> TRUE,
    max_retries |-> 1]}

\* date -u: the time at which a command is run, counted in the messages the
\* session has exchanged before it.
Now == Len(transcript) + 1

\* The script stops with status 1 before it writes anything.
SetupRefuses ==
  /\ command' = [name |-> "ralphy-loop", exit |-> 1]
  /\ UNCHANGED <<stateFile, transcript, marked>>

\* cat > .claude/ralphy-loop.local.md, the messages, and the first task:
\* under set -e and pipefail, FIRST_TASK=$(grep -m1 ... | sed ...) ends the
\* script with status 1 when grep finds no line.
SetupWrites(options) ==
  /\ stateFile' = StateFile(prd.path, DetectFormat(prd.path), options, Now)
  /\ marked' = 0
  /\ transcript' = Append(transcript,
                          SetupMessage(NamedTask(DetectFormat(prd.path), prd)))
  /\ command' = [name |-> "ralphy-loop",
                 exit |-> IF DetectFormat(prd.path) = "markdown" /\ FirstTask(prd) = 0
                          THEN 1 ELSE 0]

\* setup-ralphy-loop.sh <prd-file> [options]
Setup(options) ==
  /\ phase = "exited"
  /\ Len(AssistantLines(transcript)) < MaxIterations
  /\ IF ~prd.exists THEN SetupRefuses
     ELSE IF IsZero(IncompleteCount(Cardinality(IncompleteTasks(prd))))
          THEN SetupRefuses
     ELSE SetupWrites(options)
  /\ phase' = "working"
  /\ UNCHANGED <<prd, transcriptReadable, hookOutput, exceptLooping>>

\* Mutant: the state file is marked inactive and kept.
CancelledInactive(file) == [file EXCEPT !.active = FALSE]

\* if [[ ! -f "$RALPHY_STATE" ]]; then ... exit 0; fi; rm "$RALPHY_STATE"
Cancelled(file) == IF file.exists THEN Removed(file) ELSE file

\* The script of /cancel-ralphy.
Cancel ==
  /\ phase = "working"
  /\ stateFile' = Cancelled(stateFile)
  /\ command' = [name |-> "cancel-ralphy", exit |-> 0]
  /\ phase' = "working"
  /\ UNCHANGED <<prd, transcript, transcriptReadable, hookOutput, marked,
                 exceptLooping>>

\* A session in which no loop has been set up; the PRD file is missing or
\* holds up to MaxTasks tasks, some of them complete.
InitSession ==
  /\ stateFile = Removed(StateFile("PRD.md", "markdown", DefaultOptions, 0))
  /\ \E path \in PrdPaths :
       \/ prd = [exists |-> FALSE, path |-> path, tasks |-> <<>>]
       \/ \E n \in 0..MaxTasks : \E tasks \in [1..n -> BOOLEAN] :
            prd = [exists |-> TRUE, path |-> path, tasks |-> tasks]
  /\ transcript = <<>>
  /\ transcriptReadable = TRUE
  /\ hookOutput = NoOutput
  /\ command = NoCommand
  /\ marked = 0
  /\ phase = "exited"
  /\ NotExtracting /\ NotAnalyzing /\ NotReporting /\ NotScanning

NextSession ==
  \/ \E options \in SetupOptions : Setup(options)
  \/ Cancel
  \/ \E done \in SUBSET IncompleteTasks(prd), says \in BOOLEAN : Iterate(done, says)
  \/ StopHook

SpecSession == InitSession /\ [][NextSession]_vars

--------------------------------------------------------------------------
\* The event sequence read as a document: which close matches which open.

\* Position of the close that brings the nesting balance bal back to 0,
\* scanning evs from position j; 0 when evs ends before that.
RECURSIVE CloseFrom(_, _, _)
CloseFrom(evs, j, bal) ==
  IF j > Len(evs) THEN 0
  ELSE IF evs[j].type = "open" THEN CloseFrom(evs, j + 1, bal + 1)
  ELSE IF evs[j].type = "close"
       THEN (IF bal = 1 THEN j ELSE CloseFrom(evs, j + 1, bal - 1))
  ELSE CloseFrom(evs, j + 1, bal)

\* Position of the close matching the open at position i; 0 while it is open.
MatchingClose(evs, i) == CloseFrom(evs, i + 1, 1)

\* Number of elements open just before the event at position i.
OpenBefore(evs, i) ==
  Cardinality({j \in 1..(i - 1) : evs[j].type = "open"})
  - Cardinality({j \in 1..(i - 1) : evs[j].type = "close"})

Matches(e) ==
  e.type = "open" /\ shouldCapture(componentType, componentId, e.name, e.attributes)

\* Positions of the opens of the outermost elements satisfying the predicate,
\* in document order, from position i on.
RECURSIVE OutermostFrom(_, _)
OutermostFrom(evs, i) ==
  IF i > Len(evs) THEN <<>>
  ELSE IF Matches(evs[i])
       THEN <<i>> \o (IF MatchingClose(evs, i) = 0 THEN <<>>
                      ELSE OutermostFrom(evs, MatchingClose(evs, i) + 1))
  ELSE OutermostFrom(evs, i + 1)

Outermost == OutermostFrom(events, 1)

\* The captures whose element has been closed.
Completed(starts) == {k \in DOMAIN starts : MatchingClose(events, starts[k]) # 0}

\* The buffered form of an event: texts that are blank after trim are not
\* buffered, and a buffered item carries its depth below the capture's root.
RECURSIVE BufferOf(_, _)
BufferOf(evs, depth) ==
  IF evs = <<>> THEN <<>>
  ELSE LET e == Head(evs)
       IN CASE e.type = "open" ->
                 <<OpenItem(e.name, e.attributes, depth)>> \o BufferOf(Tail(evs), depth + 1)
            [] e.type = "close" ->
                 <<CloseItem(e.name, depth - 1)>> \o BufferOf(Tail(evs), depth - 1)
            [] OTHER ->
                 (IF Trim(e.value) = <<>> THEN <<>> ELSE <<TextItem(e.value)>>)
                 \o BufferOf(Tail(evs), depth)

--------------------------------------------------------------------------
\* C1: Depth closure. A capture started at an Open seen at depth D (captureDepth
\* holds the depth before the increment) is active exactly until the Close that
\* matches that Open: it is finalized (one component per closed capture) by
\* that Close, not by a nested Close before it, and is not active after it.
C1_DepthClosure ==
  /\ capturingContent =
       (startedAt # <<>> /\ MatchingClose(events, startedAt[Len(startedAt)]) = 0)
  /\ \A k \in DOMAIN startedAt :
       k < Len(startedAt) => MatchingClose(events, startedAt[k]) # 0
  /\ Len(components) = Cardinality(Completed(startedAt))
  /\ capturingContent =>
       captureDepth = OpenBefore(events, startedAt[Len(startedAt)])

\* A capture that started below the root, holds a nested element, and was
\* finalized by its own Close.
C1_Witness ==
  \E k \in DOMAIN startedAt :
    /\ OpenBefore(events, startedAt[k]) >= 1
    /\ MatchingClose(events, startedAt[k]) > startedAt[k] + 2
    /\ events[startedAt[k] + 1].type = "open"
    /\ Len(components) >= k

\* C2: Non-reentrancy. Captures never overlap: a capture starts only at an
\* outermost matching element, a matching element nested in a captured one
\* starts none, and while a capture is active the buffer holds every event of
\* the subtree since the outer Open (the inner Open/Close included).
C2_NonReentrancy ==
  /\ startedAt = Outermost
  /\ \A k, l \in DOMAIN startedAt :
       k < l => /\ MatchingClose(events, startedAt[k]) # 0
                /\ MatchingClose(events, startedAt[k]) < startedAt[l]
  /\ capturingContent =>
       capturedContent =
         BufferOf(SubSeq(events, startedAt[Len(startedAt)], Len(events)), 0)
  /\ ~capturingContent => capturedContent = <<>>

\* A finished scan of a document with a matching element nested in a matching
\* element: one component.
C2_Witness ==
  /\ pc = "done"
  /\ exitCode = 0
  /\ Len(components) = 1
  /\ \E i \in DOMAIN events :
       /\ Matches(events[i])
       /\ startedAt[1] < i
       /\ i < MatchingClose(events, startedAt[1])

\* C7: The inventory is the sequence of completed captures in document order:
\* one entry per completed capture, in the order the elements open, equal ids
\* kept; the index lists the same entries in the same order.
C7_InventoryOrder ==
  /\ Len(components) = Cardinality(Completed(Outermost))
  /\ \A k \in DOMAIN components :
       components[k] =
         NewMetadata(events[Outermost[k]].name, events[Outermost[k]].attributes)
  /\ IndexPath \in DOMAIN files =>
       LET index == files[IndexPath].body
       IN /\ index.totalComponents = Len(components)
          /\ Len(index.components) = Len(components)
          /\ \A k \in DOMAIN components :
               /\ index.components[k].type = components[k].type
               /\ index.components[k].id = components[k].id
               /\ index.components[k].name = components[k].name

\* An index with two entries that carry the same id.
C7_Witness ==
  /\ IndexPath \in DOMAIN files
  /\ Len(files[IndexPath].body.components) = 2
  /\ files[IndexPath].body.components[1].id = files[IndexPath].body.components[2].id
  /\ files[IndexPath].body.components[1].id # Undefined

--------------------------------------------------------------------------
\* The tag set the component type selects.
SelectedTags ==
  IF componentType = "all" THEN AllTags ELSE typeMap(ToLowerCase(componentType))

\* An Open whose tag is selected and whose id attribute has the requested value.
WantedById(e) ==
  /\ e.type = "open"
  /\ e.name \in SelectedTags
  /\ Attr(e.attributes, "id").v = componentId.v

\* Positions of the opens of the elements with the requested id that are not
\* inside another such element, from position i on.
RECURSIVE WantedFrom(_, _)
WantedFrom(evs, i) ==
  IF i > Len(evs) THEN <<>>
  ELSE IF WantedById(evs[i])
       THEN <<i>> \o (IF MatchingClose(evs, i) = 0 THEN <<>>
                      ELSE WantedFrom(evs, MatchingClose(evs, i) + 1))
  ELSE WantedFrom(evs, i + 1)

\* C3: Id filter. With componentId = B a capture starts only at an Open whose
\* tag is selected and whose id attribute equals B, and a finished scan has
\* produced exactly one component for each such element (for B alone when B
\* is nested in other matching elements).
C3_IdFilter ==
  Truthy(componentId) =>
    /\ \A k \in DOMAIN startedAt : WantedById(events[startedAt[k]])
    /\ (pc = "done" /\ exitCode = 0) =>
         /\ Len(components) = Len(WantedFrom(events, 1))
         /\ \A k \in DOMAIN components : components[k].id.v = componentId.v

\* C4: After the parser has signalled an error (extract() has rejected), no
\* event changes the capture state and no component is saved.
C4_StopsAtError ==
  [][promise = "rejected" => UNCHANGED <<capture, output, currentDepth>>]_vars

\* C5: A scan that failed with a malformed-document error has written no
\* file: no component XML, no metadata JSON, no index.
C5_NoArtifactsOnFailure ==
  (promise = "rejected" /\ stream \in {"errchunk", "unpiped"}) => DOMAIN files = {}

\* C6: Truncated capture. When the stream ends while a capture is active, no
\* component is emitted for the unfinished subtree, and the scan still ends
\* as a success that returns the components completed before.
C6_TruncatedRecoverable ==
  (stream = "ended" /\ capturingContent) =>
    /\ Len(components) = Len(startedAt) - 1
    /\ promise = "fulfilled"
    /\ pc = "done" => exitCode = 0

\* C8: Within one scan no output path is written twice.
C8_WrittenOnce ==
  \A i, j \in DOMAIN writeLog : i # j => writeLog[i] # writeLog[j]

\* C9: Every index entry's path names the XML file written for that
\* component, and its JSON sidecar has the same base name.
C9_IndexPaths ==
  IndexPath \in DOMAIN files =>
    \A k \in DOMAIN components :
      LET entry == files[IndexPath].body.components[k]
      IN /\ entry.path \in DOMAIN files
         /\ entry.path = XmlPath(components[k])
         /\ FilePath(entry.path.dir, entry.path.base, "json") \in DOMAIN files

--------------------------------------------------------------------------
\* Re-parsing a serialized fragment with the same parser.

StartsWith(s, prefix) ==
  Len(s) >= Len(prefix) /\ SubSeq(s, 1, Len(prefix)) = prefix

Entities ==
  { <<"&", <<"&", "a", "m", "p", ";">> >>,
    <<"<", <<"&", "l", "t", ";">> >>,
    <<">", <<"&", "g", "t", ";">> >>,
    <<"\"", <<"&", "q", "u", "o", "t", ";">> >>,
    <<"'", <<"&", "a", "p", "o", "s", ";">> >> }

\* The parser's decoding of entity references in attribute values and text.
RECURSIVE DecodeEntities(_)
DecodeEntities(s) ==
  IF s = <<>> THEN <<>>
  ELSE IF \E e \in Entities : StartsWith(s, e[2])
       THEN LET e == CHOOSE x \in Entities : StartsWith(s, x[2])
            IN <<e[1]>> \o DecodeEntities(SubSeq(s, Len(e[2]) + 1, Len(s)))
  ELSE <<Head(s)>> \o DecodeEntities(Tail(s))

RECURSIVE ParsedAttributes(_)
ParsedAttributes(attrs) ==
  IF attrs = <<>> THEN <<>>
  ELSE <<[key |-> Head(attrs).key, val |-> AttrObj(DecodeEntities(Head(attrs).val))]>>
       \o ParsedAttributes(Tail(attrs))

\* The events the parser emits for the lines of a fragment (the XML
\* declaration emits none; the indentation and line ends are blank text).
RECURSIVE ParseLines(_)
ParseLines(lines) ==
  IF lines = <<>> THEN <<>>
  ELSE LET l == Head(lines)
       IN (CASE l.kind = "open" ->
                  <<[type |-> "open", name |-> l.name,
                     attributes |-> ParsedAttributes(l.attrs)]>>
             [] l.kind = "text" ->
                  <<[type |-> "text", value |-> DecodeEntities(l.value)]>>
             [] l.kind = "close" -> <<[type |-> "close", name |-> l.name]>>
             [] OTHER -> <<>>)
          \o ParseLines(Tail(lines))

\* An event sequence with blank text dropped and text trimmed.
RECURSIVE NormalizeSpace(_)
NormalizeSpace(evs) ==
  IF evs = <<>> THEN <<>>
  ELSE LET e == Head(evs)
       IN (IF e.type # "text" THEN <<e>>
           ELSE IF Trim(e.value) = <<>> THEN <<>>
           ELSE <<[type |-> "text", value |-> Trim(e.value)]>>)
          \o NormalizeSpace(Tail(evs))

\* The events of the subtree captured last, from its Open to its Close.
LastCaptured ==
  SubSeq(events, startedAt[Len(components)],
         MatchingClose(events, startedAt[Len(components)]))

\* C10: Round trip. Re-parsing the XML written for a completed capture gives
\* the event sequence that was buffered (tag names, attribute names and
\* values, text values), modulo whitespace.
C10_RoundTrip ==
  components # <<>> =>
    NormalizeSpace(ParseLines(files[XmlPath(components[Len(components)])].body))
      = NormalizeSpace(LastCaptured)

\* The round trip restricted to captured subtrees without attributes.
RoundTripNoAttributes ==
  (components # <<>> /\ \A i \in DOMAIN LastCaptured :
                          LastCaptured[i].type = "open" => LastCaptured[i].attributes = <<>>)
    => NormalizeSpace(ParseLines(files[XmlPath(components[Len(components)])].body))
         = NormalizeSpace(LastCaptured)

--------------------------------------------------------------------------
\* Number of events of the subtree opened at position i, as far as it has
\* been read.
SubtreeSize(i) ==
  IF MatchingClose(events, i) = 0 THEN Len(events) - i + 1
  ELSE MatchingClose(events, i) - i + 1

\* Event count of the largest subtree whose root satisfies the predicate.
LargestMatched ==
  LET sizes == {SubtreeSize(i) : i \in {j \in DOMAIN events : Matches(events[j])}}
  IN IF sizes = {} THEN 0 ELSE CHOOSE n \in sizes : \A m \in sizes : m <= n

\* The buffered item comes from the event.
BufferedFrom(item, e) ==
  /\ item.type = e.type
  /\ item.type = "text" => item.value = e.value
  /\ item.type # "text" => item.name = e.name

\* C14: Buffer bound. The capture buffer is empty while no capture is active;
\* while one is active every buffered item comes from an event of the subtree
\* being captured (none from an event before its Open), and the buffer never
\* holds more items than the largest matched subtree has events.
C14_BufferBound ==
  /\ ~capturingContent => capturedContent = <<>>
  /\ capturingContent =>
       \A k \in DOMAIN capturedContent :
         \E i \in startedAt[Len(startedAt)]..Len(events) :
           BufferedFrom(capturedContent[k], events[i])
  /\ Len(capturedContent) <= LargestMatched

\* A capture in progress that holds its Open and a text, started after a text
\* that is not blank and was not buffered.
C14_Witness ==
  /\ capturingContent
  /\ Len(capturedContent) >= 2
  /\ \E i \in 1..(startedAt[Len(startedAt)] - 1) :
       events[i].type = "text" /\ Trim(events[i].value) # <<>>

--------------------------------------------------------------------------
\* The output files other than the index.
Artifacts(fs) == [p \in DOMAIN fs \ {IndexPath} |-> fs[p]]

\* The index without its extractedAt.
IndexInventory(fs) ==
  [totalComponents |-> fs[IndexPath].body.totalComponents,
   components |-> fs[IndexPath].body.components]

\* A later run of the CLI on the same document has succeeded.
RerunDone == run > 1 /\ pc = "done" /\ exitCode = 0

\* C11 (as stated): Re-run idempotence. Running the extraction (extract, then
\* generateIndex) twice on the same document with the same component type and
\* id leaves byte-identical output: component XML files, metadata JSON files
\* and the index.
C11_RerunIdentical == RerunDone => files = firstFiles

\* C11 (amended): the second run leaves the same component XML and metadata
\* JSON files with the same content, and an index with the same
\* totalComponents and components; the index's extractedAt is the time of
\* the run.
C11_RerunSameInventory ==
  RerunDone => /\ Artifacts(files) = Artifacts(firstFiles)
               /\ IndexInventory(files) = IndexInventory(firstFiles)

\* A second run that wrote a component again and whose index differs from the
\* first run's in extractedAt.
C11_Witness ==
  /\ RerunDone
  /\ components # <<>>
  /\ XmlPath(components[1]) \in DOMAIN firstFiles
  /\ files[IndexPath].body.extractedAt # firstFiles[IndexPath].body.extractedAt

\* C17: Source unavailable. When the input path is missing or cannot be read
\* the CLI exits non-zero and produces nothing: no output directory, no
\* component file, no index.  A scan that succeeds exits with code 0.
C17_SourceUnavailable ==
  /\ (source # "readable" /\ pc = "done") =>
       exitCode # 0 /\ ~outputDirExists /\ files = <<>>
  /\ (pc = "done" /\ promise = "fulfilled") => exitCode = 0

\* The part of C17 about a missing path.
MissingSourceNoOutput ==
  (source = "missing" /\ pc = "done") =>
    exitCode = 1 /\ ~outputDirExists /\ files = <<>>

--------------------------------------------------------------------------
\* The analyzer after one more of an input of the score.
OneMore(self, input) ==
  LET entry == [kind |-> "", id |-> Undefined, name |-> Undefined,
                extra |-> Undefined, nestingLevel |-> 1, path |-> <<>>,
                attributes |-> <<>>]
  IN CASE input = "coachViews" ->
            [self EXCEPT !.coachViews = Append(@, entry)]
       [] input = "humanServices" ->
            [self EXCEPT !.humanServices = Append(@, entry)]
       [] input = "bpdProcesses" ->
            [self EXCEPT !.bpdProcesses = Append(@, entry)]
       [] input = "serviceTasks" ->
            [self EXCEPT !.serviceTasks = Append(@, entry)]
       [] input = "maxNestingDepth" ->
            [self EXCEPT !.maxNestingDepth = @ + 1]
       [] input = "dataBindings" ->
            [self EXCEPT !.dataBindings = @ \cup {<<"#", "{", "n", "}">>}]

ScoreInputs ==
  {"coachViews", "humanServices", "bpdProcesses", "serviceTasks",
   "maxNestingDepth", "dataBindings"}

\* C15: calculateComplexityScore is non-decreasing in each of its inputs: with
\* one more coach view, human service, process, service task, level of
\* maximum nesting or distinct data binding, the others as they are, the
\* score is not lower.
C15_ScoreMonotone ==
  \A input \in ScoreInputs :
    calculateComplexityScore(OneMore(analyzer, input))
      >= calculateComplexityScore(analyzer)

\* A report whose score has a part from each input the score counts.
C15_Witness ==
  /\ report # Null
  /\ report.complexity.score = calculateComplexityScore(analyzer)
  /\ analyzer.coachViews # <<>>
  /\ analyzer.humanServices # <<>>
  /\ analyzer.serviceTasks # <<>>
  /\ analyzer.dataBindings # {}
  /\ analyzer.maxNestingDepth >= 2
  /\ \E input \in ScoreInputs :
       calculateComplexityScore(OneMore(analyzer, input))
         > calculateComplexityScore(analyzer)

\* The attribute values of the Open events of evs.
OpenValues(evs) ==
  UNION { {evs[i].attributes[k].val : k \in DOMAIN evs[i].attributes} :
          i \in {j \in DOMAIN evs : evs[j].type = "open"} }

\* The distinct matches of the two patterns over the attribute values of the
\* Open events of evs.
DistinctMatches(evs) ==
  UNION { Elements(TwMatches(value.v, 1)) \cup Elements(ExprMatches(value.v, 1)) :
          value \in {x \in OpenValues(evs) : x.t = "string"} }

\* C16: Data-binding accumulation. At the end of the scan of a new analyzer
\* the reported dataBindings are the distinct matches of the dotted-path
\* pattern and of the brace-expression pattern over the attribute values of
\* every Open event, each once, and uniqueDataBindings is their number.
C16_DataBindings ==
  (scans = 1 /\ report # Null) =>
    /\ Elements(report.dataBindings) = DistinctMatches(analyzed)
    /\ Len(report.dataBindings) = Cardinality(DistinctMatches(analyzed))
    /\ report.summary.uniqueDataBindings = Cardinality(DistinctMatches(analyzed))

\* A report with three bindings, one of which occurs in two elements.
C16_Witness ==
  /\ scans = 1
  /\ report # Null
  /\ report.dataBindings = <<<<"#", "{", "x", "}">>, <<"t", "w", ".", "e", "n", "v", ".", "a">>, <<"t", "w", ".", "e", "n", "v", ".", "a", ".", "b">>>>
  /\ report.summary.uniqueDataBindings = 3
  /\ \E i, j \in DOMAIN analyzed :
       /\ i < j
       /\ analyzed[i].type = "open"
       /\ analyzed[j].type = "open"
       /\ <<"t", "w", ".", "e", "n", "v", ".", "a">> \in DistinctMatches(<<analyzed[i]>>) \cap DistinctMatches(<<analyzed[j]>>)

\* The analyzer a new instance becomes by handling the events evs.
RECURSIVE Handled(_, _)
Handled(self, evs) ==
  IF evs = <<>> THEN self
  ELSE Handled(IF Head(evs).type = "open"
               THEN opentag(self, Head(evs).name, Head(evs).attributes)
               ELSE closetag(self),
               Tail(evs))

\* C12: Scan state is reset per invocation. The report of the second scan of
\* an analyzer instance, after a first scan that succeeded or failed, is the
\* report of the second document alone.
C12_ScanStateReset ==
  (scans >= 2 /\ report # Null) =>
    report = generateReport(Handled(BPMNAnalyzer, analyzed))

\* The first scan of an instance reports its document alone.
FirstScanReport ==
  (scans = 1 /\ report # Null) =>
    report = generateReport(Handled(BPMNAnalyzer, analyzed))

--------------------------------------------------------------------------
\* The components a scan of the events evs produces on an extractor of its
\* own: the metadata of the completed outermost matching elements from
\* position i on, in document order.
RECURSIVE AloneFrom(_, _)
AloneFrom(evs, i) ==
  IF i > Len(evs) THEN <<>>
  ELSE IF ~Matches(evs[i]) THEN AloneFrom(evs, i + 1)
  ELSE IF MatchingClose(evs, i) = 0 THEN <<>>
  ELSE <<NewMetadata(evs[i].name, evs[i].attributes)>>
         \o AloneFrom(evs, MatchingClose(evs, i) + 1)

\* The second extract() call was made while the first was in flight.
InFlightTogether == calls[2].status # "none" /\ ~calls[2].sequential

\* C13: Two scans of different documents whose parser events interleave (two
\* extract() calls in flight at once) share no mutable state: whatever the
\* interleaving, no handler fails and each scan produces exactly the
\* components it would produce alone.
C13_NoSharedState ==
  InFlightTogether =>
    /\ ~crashed
    /\ \A c \in CallIds : calls[c].produced = AloneFrom(calls[c].events, 1)

\* While only one extract() call has been made, it produces the components
\* of its document.
OneCallAlone ==
  calls[2].status = "none" =>
    /\ ~crashed
    /\ calls[1].produced = AloneFrom(calls[1].events, 1)
    /\ instance.components = calls[1].produced

\* The part of C12 about the extractor: a second extract() call made after
\* the first has settled fails in no handler, and resolves with the
\* components of the second document alone.
ExtractorSecondScan ==
  calls[2].sequential =>
    /\ ~crashed
    /\ calls[2].status = "fulfilled" =>
         /\ instance.components = AloneFrom(calls[2].events, 1)
         /\ calls[2].extractedCount = Len(AloneFrom(calls[2].events, 1))

\* The same, when the first call had resolved.
ExtractorSecondScanAfterSuccess ==
  (calls[2].sequential /\ calls[1].status = "fulfilled") =>
    /\ ~crashed
    /\ calls[2].status = "fulfilled" =>
         instance.components = AloneFrom(calls[2].events, 1)

--------------------------------------------------------------------------
\* The stop hook runs in this step.
HookRuns == phase = "stopping" /\ phase' # "stopping"

\* C18: Stop hook, all tasks done. Whenever the stop hook runs with an active
\* state file and the PRD holds no incomplete task, it removes the state file
\* and allows the exit: it prints no block decision.
C18_AllTasksDone ==
  [][(HookRuns /\ stateFile.exists /\ prd.exists /\ IncompleteTasks(prd) = {})
       => (~stateFile'.exists /\ hookOutput'.decision = "allow")]_vars

\* The part of C18 that the other exits of the hook bear out: a run of the
\* hook that finds no state file, no prd_file line or no PRD file allows the
\* exit and leaves no state file.
HookExitsWithoutPrd ==
  [][(HookRuns /\ (~stateFile.exists \/ stateFile.prd_file = "" \/ ~prd.exists))
       => (~stateFile'.exists /\ hookOutput'.decision = "allow")]_vars

HookBlocksWhenDone ==
  [][(HookRuns /\ stateFile.exists /\ stateFile.prd_file # "" /\ prd.exists
        /\ IncompleteTasks(prd) = {} /\ ~LastOutputPromises(transcript))
       => (stateFile'.exists /\ hookOutput'.decision = "block")]_vars

\* The last message of the assistant in the transcript holds the promise.
PromisedLast ==
  \E i \in DOMAIN transcript :
    /\ transcript[i].role = "assistant"
    /\ transcript[i].promise
    /\ \A j \in DOMAIN transcript : j > i => transcript[j].role # "assistant"

\* An earlier message of the assistant does not hold it.
UnpromisedBefore ==
  \E i \in DOMAIN transcript :
    transcript[i].role = "assistant" /\ ~transcript[i].promise

\* C20: Completion promise. When the stop hook runs with an active state file
\* and the last assistant message of the transcript holds the promise, it
\* removes the state file and allows the exit whether or not incomplete tasks
\* remain, and does not increment the counters of the state.
C20_CompletionPromise ==
  [][(HookRuns /\ stateFile.exists /\ transcriptReadable /\ PromisedLast)
       => /\ ~stateFile'.exists
          /\ hookOutput'.decision = "allow"
          /\ phase' = "exited"
          /\ stateFile'.current_task = stateFile.current_task
          /\ stateFile'.tasks_completed = stateFile.tasks_completed]_vars

\* The hook has let the session exit on the promise of its last message,
\* after an iteration without the promise, with incomplete tasks left.
C20_Witness ==
  /\ phase = "exited"
  /\ hookOutput.decision = "allow"
  /\ ~stateFile.exists
  /\ stateFile.prd_file # ""
  /\ prd.exists
  /\ IncompleteTasks(prd) # {}
  /\ transcriptReadable
  /\ PromisedLast
  /\ UnpromisedBefore
  /\ stateFile.current_task = 2

--------------------------------------------------------------------------
\* The setup script runs in this step.
SetupRuns == phase = "exited" /\ phase' = "working" /\ command'.name = "ralphy-loop"

\* C21: Setup precondition. Whenever the setup script runs on a PRD file that
\* is missing or holds no incomplete task, it exits with status 1 and leaves
\* no state file; it creates the state file only for a PRD file that exists
\* and holds at least one incomplete task.
C21_SetupPrecondition ==
  [][SetupRuns =>
       IF prd.exists /\ IncompleteTasks(prd) # {}
       THEN stateFile'.exists
       ELSE command'.exit = 1 /\ ~stateFile'.exists]_vars

\* The part of C21 the script bears out: without the PRD file it exits with
\* status 1 and writes nothing, and with an incomplete task it writes the
\* state file and exits with status 0.
SetupRefusesMissingPrd ==
  [][SetupRuns =>
       /\ ~prd.exists => command'.exit = 1 /\ stateFile' = stateFile
       /\ (prd.exists /\ IncompleteTasks(prd) # {})
            => command'.exit = 0 /\ stateFile'.exists /\ stateFile'.active]_vars

--------------------------------------------------------------------------
\* The script of /cancel-ralphy runs in this step.
CancelRuns == phase = "working" /\ phase' = "working" /\ command'.name = "cancel-ralphy"

\* C22: Cancel. /cancel-ralphy removes the state file and changes nothing
\* else: the PRD file and its marks stay as they are. Every run of the stop
\* hook after a cancel, as long as /ralphy-loop has not been run again,
\* allows the exit, prints no block decision and changes no file.
C22_Cancel ==
  [][/\ CancelRuns =>
          /\ ~stateFile'.exists
          /\ UNCHANGED <<prd, transcript, hookOutput, marked>>
     /\ (HookRuns /\ command.name = "cancel-ralphy") =>
          /\ hookOutput'.decision = "allow"
          /\ phase' = "exited"
          /\ ~stateFile'.exists
          /\ UNCHANGED <<prd, transcript, marked>>]_vars

\* A loop that had completed a task and had tasks left was cancelled, and
\* the hook has then let the session exit.
C22_Witness ==
  /\ command.name = "cancel-ralphy"
  /\ phase = "exited"
  /\ hookOutput.decision = "allow"
  /\ ~stateFile.exists
  /\ stateFile.tasks_completed >= 1
  /\ marked >= 1
  /\ prd.exists
  /\ IncompleteTasks(prd) # {}

--------------------------------------------------------------------------
\* The prompts of the stop hook in the transcript, in order: the positions
\* of its messages.
HookPrompts == {i \in DOMAIN transcript : transcript[i].role = "user" /\ transcript[i].promise}

\* The hook prompts from position i on that name the task of prompt i with
\* no hook prompt naming another task in between: the number of times in a
\* row that task has been fed back.
FedBack(i) ==
  Cardinality({j \in HookPrompts :
                 /\ j >= i
                 /\ \A k \in HookPrompts :
                      (i <= k /\ k <= j) => transcript[k].task = transcript[i].task})

\* C23: Retry bound. While a loop is active, no incomplete task is fed back
\* by the hook more than max_retries times in a row.
C23_RetryBound ==
  (stateFile.exists /\ stateFile.prd_file # "") =>
    \A i \in HookPrompts :
      transcript[i].task # 0 => FedBack(i) <= stateFile.max_retries

\* What the hook does with the retry fields: it never changes max_retries
\* and leaves retry_count at 0.
RetryFieldsUnused ==
  stateFile.exists => stateFile.retry_count = 0 /\ stateFile.max_retries = MAX_RETRIES

--------------------------------------------------------------------------
\* The number of events of the given type among the first n events of evs,
\* all tags or the tag t only.
CountOf(evs, n, type, ts) ==
  Cardinality({i \in 1..n : evs[i].type = type /\ evs[i].name \in ts})

\* The nesting depth after the first n events of evs.
DepthAfter(evs, n) ==
  CountOf(evs, n, "open", AnalyzedTags) - CountOf(evs, n, "close", AnalyzedTags)

\* The tags of the elements open after the events evs, outermost first.
RECURSIVE OpenAncestors(_)
OpenAncestors(evs) ==
  IF evs = <<>> THEN <<>>
  ELSE LET before == OpenAncestors(SubSeq(evs, 1, Len(evs) - 1))
           last == evs[Len(evs)]
       IN IF last.type = "open" THEN Append(before, last.name)
          ELSE SubSeq(before, 1, Len(before) - 1)

--------------------------------------------------------------------------
\* saveComponent is called in this step: component files are written.
Saves ==
  /\ Len(writeLog') > Len(writeLog)
  /\ writeLog'[Len(writeLog')] # IndexPath

\* The buffer saveComponent is given in a step that saves: what was buffered
\* before the step and the Close the step handles.
Passed == Append(capturedContent, CloseItem(events'[Len(events')].name, 0))

\* The tags left open after the items of buffer, starting from the open
\* tags of stack; <<"unbalanced">> when a Close closes no Open of its name.
RECURSIVE OpenAfter(_, _)
OpenAfter(buffer, stack) ==
  IF buffer = <<>> THEN stack
  ELSE LET item == Head(buffer)
       IN CASE item.type = "open" -> OpenAfter(Tail(buffer), Append(stack, item.name))
            [] item.type = "close" ->
                 IF stack # <<>> /\ stack[Len(stack)] = item.name
                 THEN OpenAfter(Tail(buffer), SubSeq(stack, 1, Len(stack) - 1))
                 ELSE <<"unbalanced">>
            [] OTHER -> OpenAfter(Tail(buffer), stack)

\* A balanced sequence with a single root.
SingleRoot(buffer) ==
  /\ Len(buffer) >= 2
  /\ buffer[1].type = "open"
  /\ buffer[1].depth = 0
  /\ buffer[Len(buffer)].type = "close"
  /\ buffer[Len(buffer)].name = buffer[1].name
  /\ OpenAfter(buffer, <<>>) = <<>>
  /\ \A n \in 1..(Len(buffer) - 1) : OpenAfter(SubSeq(buffer, 1, n), <<>>) # <<>>
  /\ \A n \in DOMAIN buffer : buffer[n].type # "text" => buffer[n].depth >= 0

\* C25: No partial output. Component files are written only in the step that
\* handles the Close matching the Open that started the capture, and the
\* buffer given to saveComponent is then a balanced sequence with a single
\* root: it starts with the Open of the matched element, ends with the Close
\* of that element, every Open in it has its Close, no relative depth is
\* negative, and the file written is the serialization of that buffer.
C25_NoPartialOutput ==
  [][/\ (files' # files /\ ~Saves) =>
          (promise = "fulfilled" /\ writeLog' = Append(writeLog, IndexPath))
     /\ Saves =>
          /\ capturingContent /\ ~capturingContent'
          /\ events' = Append(events, [type |-> "close", name |-> componentMetadata.type])
          /\ MatchingClose(events', startedAt[Len(startedAt)]) = Len(events')
          /\ SingleRoot(Passed)
          /\ Passed[1].name = componentMetadata.type
          /\ Passed[1].attributes = componentMetadata.attributes
          /\ Passed = BufferOf(SubSeq(events', startedAt[Len(startedAt)], Len(events')), 0)
          /\ files'[XmlPath(componentMetadata)].body = reconstructXML(Passed)]_vars

\* A component was saved whose buffer held a nested element and a text.
C25_Witness ==
  \E k \in DOMAIN startedAt :
    /\ Len(components) >= k
    /\ MatchingClose(events, startedAt[k]) >= startedAt[k] + 4
    /\ \E i, j \in (startedAt[k] + 1)..(MatchingClose(events, startedAt[k]) - 1) :
         events[i].type = "open" /\ events[j].type = "text"
    /\ XmlPath(components[k]) \in DOMAIN files

--------------------------------------------------------------------------
\* The values of a list of attributes, in order.
RECURSIVE AttributeValues(_)
AttributeValues(attributes) ==
  IF attributes = <<>> THEN <<>>
  ELSE <<Head(attributes).val>> \o AttributeValues(Tail(attributes))

\* The values of the events evs that a fragment holds, in document order:
\* the attribute values (attrs) and the texts that are not blank, trimmed
\* (texts).
RECURSIVE ValuesOf(_, _, _)
ValuesOf(evs, attrs, texts) ==
  IF evs = <<>> THEN <<>>
  ELSE LET e == Head(evs)
       IN (CASE e.type = "open" ->
                  IF attrs THEN [i \in DOMAIN e.attributes |-> e.attributes[i].val.v]
                  ELSE <<>>
             [] e.type = "text" ->
                  IF texts /\ Trim(e.value) # <<>> THEN <<Trim(e.value)>> ELSE <<>>
             [] OTHER -> <<>>)
          \o ValuesOf(Tail(evs), attrs, texts)

\* The values as the lines of a fragment hold them.
RECURSIVE EmittedValues(_, _, _)
EmittedValues(lines, attrs, texts) ==
  IF lines = <<>> THEN <<>>
  ELSE LET l == Head(lines)
       IN (CASE l.kind = "open" -> IF attrs THEN AttributeValues(l.attrs) ELSE <<>>
             [] l.kind = "text" -> IF texts THEN <<l.value>> ELSE <<>>
             [] OTHER -> <<>>)
          \o EmittedValues(Tail(lines), attrs, texts)

\* value is original with the five characters replaced by their references:
\* no raw < > " ' in it, every & begins a reference, and decoding gives
\* original.
EscapedFrom(value, original) ==
  /\ \A i \in DOMAIN value : value[i] \notin {"<", ">", "\"", "'"}
  /\ \A i \in DOMAIN value :
       value[i] = "&" =>
         \E e \in Entities : StartsWith(SubSeq(value, i, Len(value)), e[2])
  /\ DecodeEntities(value) = original

\* The fragment written for the subtree captured last holds the values of
\* that subtree, each escaped.
LastFragmentEscapes(attrs, texts) ==
  LET emitted == EmittedValues(files[XmlPath(components[Len(components)])].body,
                               attrs, texts)
      original == ValuesOf(LastCaptured, attrs, texts)
  IN /\ Len(emitted) = Len(original)
     /\ \A i \in DOMAIN emitted : EscapedFrom(emitted[i], original[i])

\* C26: Escaping. In the fragment written for a captured subtree every
\* attribute value and every text value is emitted with & < > " ' replaced
\* by their entity references: no raw < > " ' occurs in a value, every & in
\* a value begins one of the five references, and decoding the references
\* gives back the original value.
C26_Escaping == components # <<>> => LastFragmentEscapes(TRUE, TRUE)

\* The part of C26 that holds: the text values of a fragment are escaped.
TextsEscaped == components # <<>> => LastFragmentEscapes(FALSE, TRUE)

--------------------------------------------------------------------------
\* The hook runs with a valid state file, a PRD with an incomplete task and
\* no promise in the last message of the assistant.
Continues ==
  /\ HookRuns
  /\ stateFile.exists
  /\ stateFile.prd_file # ""
  /\ prd.exists
  /\ \E i \in DOMAIN prd.tasks : ~prd.tasks[i]
  /\ ~PromisedLast

\* The hook blocks, counts the iteration in the state file and leaves every
\* other field of it and the PRD file as they are.
CountsIteration ==
  /\ hookOutput'.decision = "block"
  /\ phase' = "working"
  /\ stateFile'.current_task = stateFile.current_task + 1
  /\ stateFile'.tasks_completed = stateFile.tasks_completed + 1
  /\ stateFile'.retry_count = 0
  /\ \A field \in {"exists", "active", "prd_file", "prd_format", "skip_tests",
                   "skip_lint", "browser_enabled", "max_retries", "started_at"} :
       stateFile'[field] = stateFile[field]
  /\ DOMAIN stateFile' = DOMAIN stateFile
  /\ prd' = prd

\* The prompt names the first incomplete task of the PRD.
NamesFirstIncomplete ==
  /\ ~hookOutput'.generic
  /\ hookOutput'.nextTask \in DOMAIN prd.tasks
  /\ ~prd.tasks[hookOutput'.nextTask]
  /\ \A j \in 1..(hookOutput'.nextTask - 1) : prd.tasks[j]
  /\ transcript'[Len(transcript')].task = hookOutput'.nextTask

\* C27 as stated: Stop hook continue step. With a valid state file, an
\* incomplete task in the PRD and no promise output, the hook blocks with a
\* prompt that names the first incomplete task of the PRD and rewrites the
\* state file with current_task + 1, tasks_completed + 1 and retry_count 0,
\* every other field and the PRD file unchanged.
C27_ContinueStep == [][Continues => (CountsIteration /\ NamesFirstIncomplete)]_vars

\* C27 amended: the same, where the prompt names the first incomplete task
\* for a markdown PRD and, for a YAML PRD, names no task and holds the text
\* "Next incomplete task from <prd_file>" in its place.
C27_ContinueStepByFormat ==
  [][Continues =>
       /\ CountsIteration
       /\ IF stateFile.prd_format = "markdown" THEN NamesFirstIncomplete
          ELSE hookOutput'.generic /\ hookOutput'.nextTask = 0]_vars

\* The hook has blocked for the second time on a markdown PRD whose first
\* task is complete and whose second is not.
C27_Witness ==
  /\ phase = "working"
  /\ hookOutput.decision = "block"
  /\ stateFile.exists
  /\ stateFile.prd_format = "markdown"
  /\ stateFile.current_task = 3
  /\ stateFile.tasks_completed = 2
  /\ Len(prd.tasks) >= 3
  /\ prd.tasks[1]
  /\ ~prd.tasks[2]
  /\ hookOutput.nextTask = 2
  /\ stateFile.skip_tests

--------------------------------------------------------------------------
\* C28: Progress counter accuracy. While a loop is active, the
\* tasks_completed value of the state file, and the 'Tasks completed so far'
\* of the hook's last prompt, do not exceed the number of PRD tasks marked
\* complete since the loop was set up.
C28_ProgressCounter ==
  (stateFile.exists /\ stateFile.prd_file # "" /\ prd.exists) =>
    /\ stateFile.tasks_completed <= marked
    /\ hookOutput.decision = "block" => hookOutput.completed <= marked

\* What the counter does count: the runs of the hook that blocked since the
\* loop was set up.
CountsBlocks ==
  stateFile.exists =>
    /\ stateFile.tasks_completed = stateFile.current_task - 1
    /\ stateFile.tasks_completed
         = Cardinality({i \in HookPrompts :
                          \A j \in DOMAIN transcript :
                            (transcript[j].role = "user" /\ ~transcript[j].promise) => j < i})

--------------------------------------------------------------------------
\* The component types of the usage text other than 'all'.
SpecificTypes == {"coachview", "service", "process", "task"}

\* The Open at position i lies inside an element that started a capture.
InsideCaptured(i) ==
  \E k \in DOMAIN startedAt :
    /\ startedAt[k] < i
    /\ MatchingClose(events, startedAt[k]) = 0 \/ MatchingClose(events, startedAt[k]) > i

\* With component type 'all' and no id, every element with a tag of ts that
\* is not inside a captured element has started a capture.
AllCaptures(ts) ==
  (componentType = "all" /\ componentId = Null) =>
    \A i \in DOMAIN events :
      (events[i].type = "open" /\ events[i].name \in ts /\ ~InsideCaptured(i))
        => \E k \in DOMAIN startedAt : startedAt[k] = i

\* C29: Component type 'all' is the union of the specific categories. Every
\* element whose tag is captured under one of coachview, service, process,
\* task, and which is not inside another captured element, is captured when
\* the component type is 'all'.
C29_AllIsUnion == AllCaptures(UNION {typeMap(k) : k \in SpecificTypes})

\* The part of C29 that holds: the six tags 'all' lists, which are all the
\* tags of the specific types but scriptTask and userTask.
AllCapturesListed ==
  /\ AllCaptures(AllTags)
  /\ UNION {typeMap(k) : k \in SpecificTypes} = AllTags \cup {"scriptTask", "userTask"}

--------------------------------------------------------------------------
\* C30: The analyze CLI never modifies its input document. When the CLI has
\* written its reports, the JSON report path and the Markdown report path
\* both differ from the input path, and the input path still holds the
\* document.
C30_InputUntouched ==
  aExit = 0 =>
    /\ \A path \in DOMAIN folder : folder[path].kind # "document" => path # argv[1]
    /\ folder[argv[1]] = Document

\* The part of C30 that holds: an input path that ends in .xml or .bpmn, in
\* any case, is left alone and the two reports are written next to it.
InputWithExtensionUntouched ==
  (aExit = 0 /\ \E path \in {<<"p", ".", "x", "m", "l">>, <<"p", ".", "X", "M", "L">>,
                             <<"p", ".", "b", "p", "m", "n">>} : argv = <<path>>)
    => /\ folder[argv[1]] = Document
       /\ DOMAIN folder = {argv[1], <<"p">> \o JsonSuffix, <<"p">> \o MdSuffix}
       /\ folder[<<"p">> \o JsonSuffix].kind = "json"
       /\ folder[<<"p">> \o MdSuffix].kind = "markdown"

====
